---- MODULE Spec2Model ----
(***************************************************************************)
(* Retrieval and grounding engine of enterprise-rag-suite (ai-service).    *)
(*                                                                         *)
(* The module models RAGEngine (src/rag/orchestration/engine.py), the      *)
(* retriever it drives (src/rag/retrieval/postgres_retriever.py), the      *)
(* language-model port (src/rag/llm/adapters.py) and the chunker factory   *)
(* (chunking/chunking_factory.py).                                         *)
(*                                                                         *)
(* Scores are fixed-point numbers in units of 1/10000 (0.18 is 1800);      *)
(* keyword and semantic scores of the stored chunks are given in the same  *)
(* unit.  Times are seconds.  Strings stand for themselves; None and the   *)
(* empty string are both written NULL where the code treats them alike     *)
(* ("x or default").                                                       *)
(***************************************************************************)
EXTENDS Integers, Sequences, FiniteSets, TLC

VARIABLES
    now,            \* time.time(), seconds
    dbUrlSet,       \* DATABASE_URL is configured (engine.py:27, postgres_retriever.py:23)
    redisOn,        \* self._redis is not None (engine.py:32-39)
    settingsTable,  \* table tenant_ai_settings: tenant -> <<>> (no row) or <<row>>
    corpus,         \* documents/videos of each tenant, as the sequence of chunks built from them
    tenantCache,    \* self._tenant_cache: tenant -> <<>> or <<[at, cfg]>>
    responseCache,  \* self._response_cache: set of [key, at, value]
    redis,          \* shared cache behind self._redis: set of [key, expires, value]
    ingestStore,    \* self.ingestion.store._rows (InMemoryVectorStore of the engine's pipeline)
    req,            \* the request in progress (its position pc and its locals)
    prev,           \* the last completed answer request (history, for relational properties)
    served,         \* number of requests started
    client,         \* the caller the behaviour follows: its tenant and its course scope
    threads,        \* concurrent answer() calls on the engine: thread -> its request
    collections     \* names of the collections chromadb holds in this process

vars == <<now, dbUrlSet, redisOn, settingsTable, corpus, tenantCache,
          responseCache, redis, ingestStore, req, prev, served, client, threads,
          collections>>

(***************************************************************************)
(* Bounds of the model.                                                    *)
(***************************************************************************)
\* The clock stops here.
MaxTime == 90

\* Each behaviour follows two consecutive calls of one caller, a first and a
\* second: the relational properties compare the second with the first.
Calls == { "first", "second" }

NULL == "NULL"

Tenants == {1, 2}

\* course_id: 0 stands for None
NoCourse == 0
Courses == {NoCourse, 1}

\* top_k values a caller passes
TopKs == {1, 30}

(***************************************************************************)
(* Process-wide defaults: src/config/settings.py (RAGSettings) with no     *)
(* RAG_* environment variable set.                                         *)
(***************************************************************************)
settings ==
    [ chunking_strategy  |-> "semantic",
      retrieval_strategy |-> "hybrid",
      llm_provider       |-> "groq",
      vector_store       |-> "postgres",
      embedding_provider |-> "sentence_transformer" ]

\* engine.py:29 and engine.py:31
tenant_cache_ttl_seconds == 45
response_cache_ttl_seconds == 90

\* engine.py:116, RAG_MIN_GROUND_SCORE default 0.18
min_ground_score == 1800

\* default_cfg of _get_tenant_ai_settings; temperature 0.2 is written 20 (hundredths)
default_cfg ==
    [ llm_provider       |-> settings.llm_provider,
      llm_model          |-> NULL,
      temperature        |-> 20,
      max_tokens         |-> 500,
      chunking_strategy  |-> settings.chunking_strategy,
      retrieval_strategy |-> settings.retrieval_strategy,
      vector_store       |-> settings.vector_store,
      embedding_provider |-> settings.embedding_provider,
      embedding_model    |-> "minilm" ]

CfgFields == DOMAIN default_cfg

(***************************************************************************)
(* Rows of tenant_ai_settings an administrator can store.  A column that   *)
(* is NULL (or, for the numbers, -1) is absent.                            *)
(***************************************************************************)
EmptyRow ==
    [ llm_provider       |-> NULL,
      llm_model          |-> NULL,
      temperature        |-> -1,
      max_tokens         |-> -1,
      chunking_strategy  |-> NULL,
      retrieval_strategy |-> NULL,
      vector_store       |-> NULL,
      embedding_provider |-> NULL,
      embedding_model    |-> NULL ]

RowOpenAI ==
    [ EmptyRow EXCEPT !.llm_provider = "openai", !.llm_model = "gpt-4o-mini",
                      !.retrieval_strategy = "keyword" ]

RowTemperature == [ EmptyRow EXCEPT !.temperature = 90 ]
RowBm25        == [ RowOpenAI EXCEPT !.retrieval_strategy = "bm25" ]
RowAnthropic   == [ EmptyRow EXCEPT !.llm_provider = "anthropic", !.vector_store = "chromadb" ]
RowOverlap     == [ EmptyRow EXCEPT !.chunking_strategy = "overlap" ]

(***************************************************************************)
(* Questions and stored content.  A text is modelled by what the code      *)
(* reads of it: its normal form, its query tokens, the words it contains.  *)
(***************************************************************************)
Questions == { "binary search tree", " Binary Search Tree ", "quantum chromodynamics" }

\* str.strip().lower() on the strings of the model (engine.py:218, 311, 325)
StripLower(s) ==
    CASE s = " Binary Search Tree " -> "binary search tree"
      [] s = "Fixed "               -> "fixed"
      [] OTHER                      -> s

\* retrieve, lines 52-54: alphanumeric tokens of length >= 3 of query.lower(), at most 8
Tokenize(q) ==
    IF StripLower(q) = "binary search tree"
    THEN << "binary", "search", "tree" >>
    ELSE << "quantum", "chromodynamics" >>

\* The chunks _build_chunks_from_sources makes of the stored documents: the
\* source, the snippet, the course of the document and the words of the text.
Chunk1 ==
    [ source_id |-> "document:1", source_name |-> "bst.txt", course |-> 1,
      snippet |-> "A binary search tree orders nodes by key",
      words |-> { "binary", "search", "tree", "orders", "nodes", "key" } ]
Chunk2 ==
    [ source_id |-> "document:2", source_name |-> "notes.md", course |-> 2,
      snippet |-> "Tree traversal notes",
      words |-> { "tree", "traversal", "notes" } ]
Chunk3 ==
    [ source_id |-> "document:3", source_name |-> "syllabus.txt", course |-> 1,
      snippet |-> "Course syllabus",
      words |-> { "course", "syllabus" } ]

\* What storage holds in the behaviours of the model: the settings row
\* (<<>>: none) and the chunks, in collection order, of each tenant
Tenancies ==
    { [ settings |-> (1 :> << >>) @@ (2 :> << RowTemperature >>),
        corpus   |-> (1 :> << Chunk1, Chunk2 >>) @@ (2 :> << Chunk2, Chunk1 >>) ],
      [ settings |-> (1 :> << RowBm25 >>) @@ (2 :> << RowAnthropic >>),
        corpus   |-> (1 :> << Chunk2, Chunk3 >>) @@ (2 :> << Chunk1 >>) ],
      [ settings |-> (1 :> << RowOverlap >>) @@ (2 :> << RowOpenAI >>),
        corpus   |-> (1 :> << >>) @@ (2 :> << Chunk3, Chunk1, Chunk2 >>) ] }

\* Cosine similarity of the chunk's embedding and the query's, clamped to
\* [0,1] (lines 258-259, 371): given by the embedding model, here a table.
Similarity(chunk, q) ==
    IF "sim" \in DOMAIN chunk
    THEN ( IF StripLower(q) = "binary search tree" THEN chunk.sim ELSE 0 )
    ELSE IF StripLower(q) = "binary search tree"
    THEN CASE chunk = Chunk1 -> 8000
           [] chunk = Chunk2 -> 500
           [] OTHER          -> 0
    ELSE CASE chunk = Chunk2 -> 500
           [] OTHER          -> 0

(***************************************************************************)
(* Sequence helpers.                                                       *)
(***************************************************************************)
Min(a, b) == IF a < b THEN a ELSE b
Max(a, b) == IF a > b THEN a ELSE b

\* s[:n]; a negative n counts from the end
Take(s, n) ==
    IF n >= 0 THEN SubSeq(s, 1, Min(Len(s), n)) ELSE SubSeq(s, 1, Max(0, Len(s) + n))

(***************************************************************************)
(* RAGEngine: configuration helpers.                                       *)
(***************************************************************************)
\* "a or b" on strings: None and "" are falsy
OrElse(a, b) == IF a = NULL THEN b ELSE a

\* RAGEngine._normalize_chunking_strategy
normalize_chunking_strategy(value) ==
    LET v == StripLower(value) IN
    CASE v = "fixed"        -> "fixed_size"
      [] v = "fixed_size"   -> "fixed_size"
      [] v = "semantic"     -> "semantic"
      [] v = "paragraph"    -> "paragraph"
      [] v = "page"         -> "page_based"
      [] v = "page_based"   -> "page_based"
      [] v = "overlap"      -> "overlap"
      [] v = "parent_child" -> "parent_child"
      [] v = "recursive"    -> "recursive"
      [] v = "sentence"     -> "sentence"
      [] OTHER              -> settings.chunking_strategy

\* RAGEngine._resolve_embedding_provider
resolve_embedding_provider(embedding_provider, embedding_model) ==
    LET provider == StripLower(embedding_provider)
        model    == StripLower(embedding_model)
    IN  IF provider # NULL THEN provider
        ELSE IF model \in { "minilm", "all-minilm-l6-v2" } THEN "sentence_transformer"
        ELSE IF model \in { "text-embedding-3-small", "openai" } THEN "openai"
        ELSE IF model \in { "embed-english-v3.0", "cohere" } THEN "cohere"
        ELSE settings.embedding_provider

\* RAGEngine._make_answer_cache_key: the digest of the canonical JSON of the
\* payload; SHA-256 is taken to be injective, so the key is the payload.
make_answer_cache_key(tenant_id, course_id, question, retrieval_strategy, vector_store, chunking_strategy, embedding_provider, embedding_model, llm_provider, llm_model) ==
    [ tenant_id          |-> tenant_id,
      course_id          |-> course_id,
      q                  |-> StripLower(question),
      retrieval_strategy |-> retrieval_strategy,
      vector_store       |-> vector_store,
      chunking_strategy  |-> chunking_strategy,
      embedding_provider |-> embedding_provider,
      embedding_model    |-> embedding_model,
      llm_provider       |-> llm_provider,
      llm_model          |-> llm_model ]

\* The configuration read from a row of tenant_ai_settings (engine.py:292-303);
\* rowOpt is <<>> when fetchone() returns None.
cfg_of_row(rowOpt) ==
    LET row == IF rowOpt = << >> THEN EmptyRow ELSE rowOpt[1] IN
    [ llm_provider       |-> OrElse(row.llm_provider, default_cfg.llm_provider),
      llm_model          |-> row.llm_model,
      temperature        |-> IF row.temperature # -1 THEN row.temperature
                             ELSE default_cfg.temperature,
      max_tokens         |-> IF row.max_tokens # -1 THEN row.max_tokens
                             ELSE default_cfg.max_tokens,
      chunking_strategy  |-> OrElse(row.chunking_strategy, default_cfg.chunking_strategy),
      retrieval_strategy |-> OrElse(row.retrieval_strategy, default_cfg.retrieval_strategy),
      vector_store       |-> OrElse(row.vector_store, default_cfg.vector_store),
      embedding_provider |-> OrElse(row.embedding_provider, default_cfg.embedding_provider),
      embedding_model    |-> OrElse(row.embedding_model, default_cfg.embedding_model) ]

(***************************************************************************)
(* PostgresKeywordRetriever (src/rag/retrieval/postgres_retriever.py).     *)
(***************************************************************************)
\* retrieve, lines 38-42
normalize_retrieval_strategy(raw) ==
    CASE raw = "bm25"    -> "keyword"
      [] raw = "lexical" -> "keyword"
      [] OTHER           -> raw

\* retrieve, lines 43-47
normalize_vector_store(raw) ==
    CASE raw = "pgvector" -> "postgres"
      [] raw = "chromadb" -> "chroma"
      [] OTHER            -> raw

\* _score_text: the share of the query tokens found in the text, at most 0.95
score_text(chunk, tokens) ==
    LET hits == Cardinality({ i \in 1..Len(tokens) : tokens[i] \in chunk.words }) IN
    IF Len(tokens) = 0 THEN 0 ELSE Min(9500, (hits * 10000) \div Len(tokens))

\* What the embedding providers do during one retrieval
EmbedOutcomes == { "primary_ok", "fallback_ok", "all_fail" }

\* _embed_texts: the configured provider, and on any failure the fixed default
\* one, whose failure is not caught.
embed_texts_raises(emb) == emb = "all_fail"

\* _semantic_scores_in_memory: _embed_texts is called at line 252, outside any try
semantic_scores_in_memory_raises(emb) == embed_texts_raises(emb)

\* _semantic_scores_postgres: _embed_texts is called at line 329, before the try
\* block that guards the index query
semantic_scores_postgres_raises(emb) == embed_texts_raises(emb)

\* _semantic_scores_chroma: with chromadb importable _embed_texts is called at
\* line 280, before the try block that guards the collection; without it the
\* function returns {} and retrieve goes on to the in-memory scoring
semantic_scores_chroma_raises(emb) ==
    embed_texts_raises(emb) \/ semantic_scores_in_memory_raises(emb)

\* retrieve, lines 69-106: whether the semantic scoring raises
semantic_scoring_raises(retrieval_strategy, vector_store, emb) ==
    IF retrieval_strategy \notin { "semantic", "hybrid" } THEN FALSE
    ELSE IF vector_store \in { "postgres", "pgvector" }
    THEN semantic_scores_postgres_raises(emb)
    ELSE IF vector_store \in { "chroma", "chromadb" }
    THEN semantic_scores_chroma_raises(emb)
    ELSE semantic_scores_in_memory_raises(emb)

\* What the tenant's vector store contributes to the semantic scoring of one
\* retrieval: similarity scores; nothing (no embedded chunk in the index, or
\* the index query or the collection raises, which the code turns into {});
\* or it cannot be used at all (chromadb is not importable)
StoreOutcomes == { "scores", "nothing", "unavailable" }

\* retrieve, lines 69-106: the number of times _embed_texts is called.  The
\* store's scoring embeds the query (lines 329, 280) and, when it gives
\* nothing, the in-memory scoring embeds again (line 252).
embed_texts_calls(retrieval_strategy, vector_store, emb, store) ==
    IF retrieval_strategy \notin { "semantic", "hybrid" } THEN 0
    ELSE IF embed_texts_raises(emb) THEN 1
    ELSE IF vector_store \in { "postgres", "pgvector" }
    THEN ( IF store = "scores" THEN 1 ELSE 2 )
    ELSE IF vector_store \in { "chroma", "chromadb" }
    THEN ( IF store = "nothing" THEN 2 ELSE 1 )
    ELSE 1

\* _embed_texts: each call attempts the configured provider; the default one
\* is attempted in each call in which the configured one fails
embed_fallback_calls(calls, emb) == IF emb = "primary_ok" THEN 0 ELSE calls

\* semantic_scores.get(cid, 0.0): no entry under the keyword strategy
semantic_score(chunk, q, retrieval_strategy) ==
    IF retrieval_strategy \in { "semantic", "hybrid" } THEN Similarity(chunk, q) ELSE 0

\* _rank_chunks, lines 407-414: the combined score of a chunk
combined_score(k, s, retrieval_strategy) ==
    CASE retrieval_strategy = "keyword"  -> k
      [] retrieval_strategy = "semantic" -> s
      [] OTHER                           -> (65 * s + 35 * k) \div 100

\* _rank_chunks, line 421: the score a row reports
reported_score(score) == Max(5200, Min(9800, score))

\* An insertion that puts a row before the rows of equal score
RECURSIVE InsertBeforeTies(_, _)
InsertBeforeTies(sorted, row) ==
    IF sorted = << >> THEN << row >>
    ELSE IF Head(sorted).score > row.score
         THEN << Head(sorted) >> \o InsertBeforeTies(Tail(sorted), row)
         ELSE << row >> \o sorted

\* list.sort(key=score, reverse=True): stable, by descending score
RECURSIVE InsertByScore(_, _)
InsertByScore(sorted, row) ==
    IF sorted = << >> THEN << row >>
    ELSE IF Head(sorted).score >= row.score
         THEN << Head(sorted) >> \o InsertByScore(Tail(sorted), row)
         ELSE << row >> \o sorted

RECURSIVE SortByScoreDesc(_)
SortByScoreDesc(rows) ==
    IF rows = << >> THEN << >>
    ELSE InsertByScore(SortByScoreDesc(SubSeq(rows, 1, Len(rows) - 1)), rows[Len(rows)])

\* _rank_chunks; each row also carries the combined score it was made from
\* and ord, the position of its chunk in chunks
rank_chunks(chunks, q, tokens, retrieval_strategy, top_k) ==
    LET Combined(c) == combined_score(score_text(c, tokens),
                                      semantic_score(c, q, retrieval_strategy),
                                      retrieval_strategy)
        Positive(i) == Combined(chunks[i]) > 0
        Row(i) == [ source_name |-> chunks[i].source_name,
                    source_id   |-> chunks[i].source_id,
                    snippet     |-> chunks[i].snippet,
                    score       |-> reported_score(Combined(chunks[i])),
                    combined    |-> Combined(chunks[i]),
                    ord         |-> i ]
        kept == SelectSeq([ i \in 1..Len(chunks) |-> i ], Positive)
        rows == [ j \in 1..Len(kept) |-> Row(kept[j]) ]
    IN  Take(SortByScoreDesc(rows), Max(top_k * 2, top_k))

\* _merge_rows: first occurrence of each (source, snippet), at most max(top_k, 8) rows
RECURSIVE merge_rows_from(_, _, _, _)
merge_rows_from(rows, seen, merged, top_k) ==
    IF rows = << >> \/ Len(merged) >= Max(top_k, 8) THEN merged
    ELSE LET row == Head(rows)
             key == << row.source_id, row.snippet >>
         IN  IF key \in seen
             THEN merge_rows_from(Tail(rows), seen, merged, top_k)
             ELSE merge_rows_from(Tail(rows), seen \cup { key }, Append(merged, row), top_k)

merge_rows(primary, secondary, top_k) == merge_rows_from(primary \o secondary, {}, << >>, top_k)

\* A stored row is a piece of a document, or a row of the videos table, which
\* has a transcript column (<<>>: NULL or blank)
is_video(row) == "transcript" \in DOMAIN row

\* _ensure_video_transcript, lines 517-531: the transcript the video
\* contributes (<<>>: none).  recording is what _transcribe_uploaded_video
\* makes of the file: <<>> when the file is missing, whisper is not installed,
\* transcription fails or yields nothing.
ensure_video_transcript(row) ==
    IF row.transcript # << >> THEN row.transcript
    ELSE IF row.source_type # "upload" \/ row.recording = << >> THEN << >>
    ELSE row.recording

\* _ensure_video_transcript, lines 532-536: the row after the call.  updateOk:
\* the UPDATE succeeds (its exception is swallowed).
ensure_video_transcript_row(row, updateOk) ==
    IF row.transcript = << >> /\ ensure_video_transcript(row) # << >> /\ updateOk
    THEN [ row EXCEPT !.transcript = row.recording ]
    ELSE row

\* _collect_source_texts, lines 171-179 and 196-203: the sources with a text
source_has_text(row) == is_video(row) => ensure_video_transcript(row) # << >>
source_chunk(row) ==
    IF is_video(row)
    THEN [ source_id |-> row.source_id, source_name |-> row.source_name,
           course |-> row.course,
           snippet |-> ensure_video_transcript(row)[1].snippet,
           words |-> ensure_video_transcript(row)[1].words ]
    ELSE row

\* The chunks of the rows that have a text
chunks_of_sources(rows) ==
    LET sources == SelectSeq(rows, source_has_text) IN
    [ i \in 1..Len(sources) |-> source_chunk(sources[i]) ]

\* A collection whose queries have no tenant_id condition
collect_chunks_of_every_tenant(stored, tenant_id, course_id) ==
    LET InCourse(c) == course_id = NoCourse \/ c.course = course_id
        other == CHOOSE t \in Tenants : t # tenant_id
    IN  chunks_of_sources(SelectSeq(stored[tenant_id] \o stored[other], InCourse))

\* _collect_source_texts and _build_chunks_from_sources: the chunks of the
\* tenant's documents and videos, of one course when course_id is given
collect_chunks(stored, tenant_id, course_id) ==
    LET InCourse(c) == course_id = NoCourse \/ c.course = course_id IN
    chunks_of_sources(SelectSeq(stored[tenant_id], InCourse))

\* _collect_source_texts: storage after the call, which commits on leaving
\* "with self._connect() as conn" (line 155) what _ensure_video_transcript wrote
collect_source_texts_stored(stored, tenant_id, course_id, updateOk) ==
    LET InCourse(c) == course_id = NoCourse \/ c.course = course_id
        rows == stored[tenant_id]
    IN  [ stored EXCEPT ![tenant_id] =
            [ i \in 1..Len(rows) |->
                IF is_video(rows[i]) /\ InCourse(rows[i])
                THEN ensure_video_transcript_row(rows[i], updateOk)
                ELSE rows[i] ] ]

\* A clamp without the upper limit
clamp_top_k_no_upper_limit(top_k) == Max(1, top_k)

\* retrieve, line 55: the retriever's working range
clamp_top_k(top_k) == Max(1, Min(12, top_k))

\* PostgresKeywordRetriever.retrieve.  dbOk: the storage answers; emb: what
\* the embedding providers do.  status is "ok" or names what was raised.
retrieve(stored, tenant_id, query, top_k_arg, course_id, retrieval_strategy_raw, vector_store_raw, dbOk, emb) ==
    LET retrieval_strategy == normalize_retrieval_strategy(retrieval_strategy_raw)
        vector_store == normalize_vector_store(vector_store_raw)
        tokens == Tokenize(query)
        top_k  == clamp_top_k(top_k_arg)
        chunks == collect_chunks(stored, tenant_id, course_id)
        rows   == rank_chunks(chunks, query, tokens, retrieval_strategy, top_k)
        merged == merge_rows(<< >>, rows, top_k)
        Doc(r) == [ tenant_id |-> tenant_id,
                    source    |-> r.source_name,
                    snippet   |-> r.snippet,
                    score     |-> r.score,
                    combined  |-> r.combined,
                    source_id |-> r.source_id,
                    ord       |-> r.ord ]
    IN  IF ~dbOk THEN [ status |-> "storage_error", rows |-> << >> ]
        ELSE IF chunks = << >> THEN [ status |-> "ok", rows |-> << >> ]
        ELSE IF semantic_scoring_raises(retrieval_strategy, vector_store, emb)
        THEN [ status |-> "embedding_error", rows |-> << >> ]
        ELSE [ status |-> "ok",
               rows   |-> [ i \in 1..Len(Take(merged, top_k)) |-> Doc(merged[i]) ] ]

\* HybridRetriever.retrieve (src/rag/retrieval/adapters.py)
hybrid_retrieve(stored, tenant_id, query, top_k, course_id, retrieval_strategy, vector_store, dbOk, emb) ==
    LET r == retrieve(stored, tenant_id, query, top_k, course_id, retrieval_strategy,
                      vector_store, dbOk, emb)
    IN  [ r EXCEPT !.rows = Take(r.rows, top_k) ]

(***************************************************************************)
(* Chunker factory (chunking/chunking_factory.py) and the language-model   *)
(* port (src/rag/llm/adapters.py).                                         *)
(***************************************************************************)
\* ChunkingFactory._chunkers
SupportedChunkers ==
    { "fixed_size", "page_based", "paragraph", "semantic", "parent_child",
      "sentence", "recursive" }

\* ChunkingFactory.create raises ValueError for a strategy it does not know
chunker_create_raises(strategy) == strategy \notin SupportedChunkers

\* _build_chunks_from_sources, lines 208-211: the strategy the retriever chunks with
retriever_chunker(strategy) ==
    IF chunker_create_raises(strategy) THEN "semantic" ELSE strategy

\* The prompt of engine.py:136-141: the question, then the context snippets
make_prompt(question, snippets) == << question >> \o snippets

\* MockProvider.answer: a summary made of the prompt's context alone
mock_answer(prompt) ==
    IF Len(prompt) < 2
    THEN << "I could not find enough grounded course context to answer this question." >>
    ELSE << "Based on your course materials:" >> \o Tail(prompt)

\* TenantAwareProvider.answer.  llmOk: the provider's API answers.  Only
\* openai and groq are called; any other name is answered by the mock.
\* by: who produced the text.
provider_answer(prompt, provider_raw, llmOk) ==
    LET provider == StripLower(provider_raw) IN
    IF provider \in { "openai", "groq" }
    THEN [ raised |-> ~llmOk, by |-> provider, text |-> << "answer of", provider >> \o prompt ]
    ELSE [ raised |-> FALSE, by |-> "mock", text |-> mock_answer(prompt) ]

(***************************************************************************)
(* RAGEngine: caches.                                                      *)
(***************************************************************************)
\* A settings read that also caches the defaults it returns when the read fails
get_tenant_ai_settings_caching_failures(cache, table, tenant_id, dbOk) ==
    IF cache[tenant_id] # << >> /\ now - cache[tenant_id][1].at < tenant_cache_ttl_seconds
    THEN [ cfg |-> cache[tenant_id][1].cfg, from |-> "cache", cache |-> cache ]
    ELSE LET failed == ~dbUrlSet \/ ~dbOk
             cfg    == IF failed THEN default_cfg ELSE cfg_of_row(table[tenant_id])
         IN  [ cfg   |-> cfg,
               from  |-> IF ~dbUrlSet THEN "no_db_url"
                         ELSE IF ~dbOk THEN "read_error"
                         ELSE IF table[tenant_id] = << >> THEN "no_row" ELSE "row",
               cache |-> [ cache EXCEPT ![tenant_id] = << [ at |-> now, cfg |-> cfg ] >> ] ]

\* RAGEngine._get_tenant_ai_settings.  dbOk: connect and query succeed.
\* from: where the configuration came from; cache: the tenant cache afterwards.
get_tenant_ai_settings(cache, table, tenant_id, dbOk) ==
    IF cache[tenant_id] # << >> /\ now - cache[tenant_id][1].at < tenant_cache_ttl_seconds
    THEN [ cfg |-> cache[tenant_id][1].cfg, from |-> "cache", cache |-> cache ]
    ELSE IF ~dbUrlSet
    THEN [ cfg |-> default_cfg, from |-> "no_db_url", cache |-> cache ]
    ELSE IF ~dbOk
    THEN [ cfg |-> default_cfg, from |-> "read_error", cache |-> cache ]
    ELSE LET cfg == cfg_of_row(table[tenant_id]) IN
         [ cfg   |-> cfg,
           from  |-> IF table[tenant_id] = << >> THEN "no_row" ELSE "row",
           cache |-> [ cache EXCEPT ![tenant_id] = << [ at |-> now, cfg |-> cfg ] >> ] ]

\* The entries of a cache under a key
EntriesOf(cache, key) == { e \in cache : e.key = key }

\* RAGEngine._get_cached_answer.  redisOk: the shared cache answers.
\* hit: <<value>> or <<>>; cache: the in-process cache afterwards.  born, in
\* the entries and in the outcome, records when the value was computed.
get_cached_answer(cache, shared, key, redisOk) ==
    LET local  == { e \in EntriesOf(cache, key) : now - e.at < response_cache_ttl_seconds }
        remote == { e \in EntriesOf(shared, key) : now < e.expires }
    IN  IF local # {}
        THEN [ hit |-> << (CHOOSE e \in local : TRUE).value >>, cache |-> cache,
               born |-> (CHOOSE e \in local : TRUE).born ]
        ELSE IF redisOn /\ redisOk /\ remote # {}
        THEN LET found == CHOOSE e \in remote : TRUE IN
             [ hit   |-> << found.value >>,
               cache |-> (cache \ EntriesOf(cache, key))
                            \cup { [ key |-> key, at |-> now, value |-> found.value,
                                     born |-> found.born ] },
               born  |-> found.born ]
        ELSE [ hit |-> << >>, cache |-> cache, born |-> now ]

\* RAGEngine._set_cached_answer: the in-process cache afterwards
set_cached_answer_local(cache, key, value) ==
    (cache \ EntriesOf(cache, key))
        \cup { [ key |-> key, at |-> now, value |-> value, born |-> now ] }

\* RAGEngine._set_cached_answer, lines 251-255: the shared cache afterwards
set_cached_answer_shared(shared, key, value, redisOk) ==
    IF redisOn /\ redisOk
    THEN (shared \ EntriesOf(shared, key))
            \cup { [ key |-> key, expires |-> now + response_cache_ttl_seconds,
                     value |-> value, born |-> now ] }
    ELSE shared

(***************************************************************************)
(* RAGEngine.answer: the results it builds.                                *)
(***************************************************************************)
\* engine.py:86
requested_top_k_of(top_k) == Max(10, Min(25, IF top_k = 0 THEN 10 ELSE top_k))

\* engine.py:117: the candidates that pass the grounding check
is_grounded(d) == d.score >= min_ground_score /\ d.snippet # ""
grounded_docs(ranked) == SelectSeq(ranked, is_grounded)

\* A grounding check that never refuses
must_refuse_never(grounded) == FALSE

\* engine.py:119
must_refuse(grounded) == grounded = << >>

\* engine.py:120-125: the refusal template, which names the scope
refusal_text(course_id) ==
    << "I could not find grounded content for that question.",
       IF course_id # NoCourse THEN "this course" ELSE "your available learning materials" >>

RefusalTexts == { refusal_text(c) : c \in Courses }

\* engine.py:170-177 and 189-196
source_of(d) == [ source |-> d.source, snippet |-> d.snippet, score |-> d.score ]
sources_of(ranked, requested_top_k) ==
    [ i \in 1..Len(Take(ranked, requested_top_k)) |-> source_of(ranked[i]) ]

\* engine.py:101-114
retrieval_failed_result(r, cause) ==
    [ response                |-> << "Retrieval failed", r.retrieval_strategy,
                                     r.vector_store, cause >>,
      grounded                |-> FALSE,
      provider_used           |-> r.cfg.llm_provider,
      model_used              |-> r.cfg.llm_model,
      retrieval_strategy_used |-> r.retrieval_strategy,
      vector_store_used       |-> r.vector_store,
      chunking_strategy_used  |-> r.chunking_strategy,
      top_k_used              |-> r.requested_top_k,
      sources                 |-> << >> ]

\* engine.py:121-128
refusal_result(course_id) ==
    [ response |-> refusal_text(course_id), sources |-> << >>, grounded |-> FALSE ]

\* engine.py:180-197
answer_result(r, answer, ranked) ==
    [ response                |-> answer,
      grounded                |-> TRUE,
      provider_used           |-> r.cfg.llm_provider,
      model_used              |-> r.cfg.llm_model,
      retrieval_strategy_used |-> r.retrieval_strategy,
      vector_store_used       |-> r.vector_store,
      chunking_strategy_used  |-> r.chunking_strategy,
      top_k_used              |-> r.requested_top_k,
      sources                 |-> sources_of(ranked, r.requested_top_k) ]

\* engine.py:160-178
fallback_result(r, fallback, ranked) ==
    [ response      |-> fallback,
      grounded      |-> TRUE,
      provider_used |-> r.cfg.llm_provider,
      model_used    |-> r.cfg.llm_model,
      llm_fallback  |-> TRUE,
      warning       |-> << "Provider failed; returned deterministic grounded fallback.",
                           r.cfg.llm_provider >>,
      sources       |-> sources_of(ranked, r.requested_top_k) ]

(***************************************************************************)
(* The request in progress.  pc is its position; the other fields are the  *)
(* locals of answer()/ingest() and counters of the calls it has made.      *)
(***************************************************************************)
NoRequest ==
    [ pc |-> "idle", op |-> "none",
      tenant |-> 1, question |-> NULL, course |-> NoCourse, top_k |-> 0, source |-> NULL,
      cfg |-> default_cfg, cfg_from |-> "none",
      retrieval_strategy |-> NULL, vector_store |-> NULL, chunking_strategy |-> NULL,
      embedding_provider |-> NULL, embedding_model |-> NULL,
      cache_key |-> << >>, requested_top_k |-> 0,
      docs |-> << >>, grounded |-> << >>, prompt |-> << >>,
      result |-> << >>, path |-> "none", raised |-> NULL, answered_by |-> NULL,
      cached |-> FALSE, llm_failed |-> FALSE, started_at |-> 0, checked_at |-> 0,
      storage_reads |-> 0, retriever_calls |-> 0, llm_calls |-> 0, mock_calls |-> 0,
      embed_calls |-> 0, embed_fallback_calls |-> 0, rows |-> << >>,
      stages |-> << >>, hit_computed_at |-> 0 ]

\* The threads that call answer() on one engine at the same time
Threads == { "t1", "t2" }

NoPrev ==
    [ valid |-> FALSE, tenant |-> 1, question |-> NULL, course |-> NoCourse, top_k |-> 0,
      cfg |-> default_cfg, cfg_from |-> "none", cache_key |-> << >>, result |-> << >>,
      path |-> "none", answered_by |-> NULL, finished_at |-> 0 ]

\* Sources and texts RAGEngine.ingest is given
IngestSources == { "upload.txt" }

Init ==
    /\ now = 0
    /\ dbUrlSet \in BOOLEAN
    /\ redisOn \in BOOLEAN
    /\ \E d \in Tenancies : settingsTable = d.settings /\ corpus = d.corpus
    /\ client \in [ tenant : Tenants, course : Courses ]
    /\ tenantCache = [ t \in Tenants |-> << >> ]
    /\ responseCache = {}
    /\ redis = {}
    /\ ingestStore = << >>
    /\ req = NoRequest
    /\ prev = NoPrev
    /\ served = 0
    /\ threads = [ i \in Threads |-> NoRequest ]
    /\ collections = {}

\* Time passes between two requests.
Tick ==
    /\ req.pc = "idle"
    /\ served > 0
    /\ now + tenant_cache_ttl_seconds <= MaxTime
    /\ now' = now + tenant_cache_ttl_seconds
    /\ UNCHANGED << dbUrlSet, redisOn, settingsTable, corpus, tenantCache,
                    responseCache, redis, ingestStore, req, prev, served, client, threads, collections >>

\* A caller invokes RAGEngine.answer(tenant_id, question, course_id, top_k).
CallAnswer(t, q, c, k) ==
    /\ req.pc = "idle"
    /\ t = client.tenant /\ c = client.course
    /\ served < Cardinality(Calls)
    /\ served' = served + 1
    /\ req' = [ NoRequest EXCEPT !.pc = "resolve_config", !.op = "answer",
                                 !.tenant = t, !.question = q, !.course = c, !.top_k = k,
                                 !.started_at = now ]
    /\ UNCHANGED << now, dbUrlSet, redisOn, settingsTable, corpus, tenantCache,
                    responseCache, redis, ingestStore, prev, client, threads, collections >>

\* A caller invokes RAGEngine.ingest(tenant_id, source, text).
CallIngest(t, src) ==
    /\ req.pc = "idle"
    /\ t = client.tenant
    /\ served < Cardinality(Calls)
    /\ served' = served + 1
    /\ req' = [ NoRequest EXCEPT !.pc = "resolve_config", !.op = "ingest",
                                 !.tenant = t, !.source = src, !.started_at = now ]
    /\ UNCHANGED << now, dbUrlSet, redisOn, settingsTable, corpus, tenantCache,
                    responseCache, redis, ingestStore, prev, client, threads, collections >>

\* engine.py:61-81 (answer) and 42-47 (ingest): the configuration is resolved.
ResolveConfig(dbOk) ==
    /\ req.pc = "resolve_config"
    /\ LET got == get_tenant_ai_settings(tenantCache, settingsTable, req.tenant, dbOk)
           cfg == got.cfg
           rs  == OrElse(cfg.retrieval_strategy, settings.retrieval_strategy)
           vs  == OrElse(cfg.vector_store, settings.vector_store)
           cs  == normalize_chunking_strategy(
                      OrElse(cfg.chunking_strategy, settings.chunking_strategy))
           ep  == resolve_embedding_provider(cfg.embedding_provider, cfg.embedding_model)
           em  == cfg.embedding_model
           key == make_answer_cache_key(req.tenant, req.course, req.question, rs, vs, cs,
                      ep, em, OrElse(cfg.llm_provider, settings.llm_provider), cfg.llm_model)
       IN  /\ tenantCache' = got.cache
           /\ req' = [ req EXCEPT
                  !.pc = IF req.op = "answer" THEN "check_cache" ELSE "ingest",
                  !.stages = IF req.op = "answer" THEN Append(@, "RESOLVE_CONFIG") ELSE @,
                  !.cfg = cfg, !.cfg_from = got.from,
                  !.storage_reads = IF got.from \in { "read_error", "no_row", "row" }
                                    THEN 1 ELSE 0,
                  !.retrieval_strategy = IF req.op = "answer" THEN rs ELSE NULL,
                  !.vector_store = IF req.op = "answer" THEN vs ELSE NULL,
                  !.chunking_strategy = cs,
                  !.embedding_provider = ep,
                  !.embedding_model = IF req.op = "answer" THEN em ELSE NULL,
                  !.cache_key = IF req.op = "answer" THEN << key >> ELSE << >> ]
    /\ UNCHANGED << now, dbUrlSet, redisOn, settingsTable, corpus,
                    responseCache, redis, ingestStore, prev, served, client, threads, collections >>

\* engine.py:82-86 with the return of line 84 left out: a cached answer is
\* found and the pipeline runs on all the same.
CheckCacheWithoutReturn(redisOk) ==
    /\ req.pc = "check_cache"
    /\ LET got == get_cached_answer(responseCache, redis, req.cache_key[1], redisOk) IN
       /\ responseCache' = got.cache
       /\ req' = IF got.hit # << >>
                 THEN [ req EXCEPT !.pc = "retrieve", !.path = "cache_hit",
                                   !.result = got.hit, !.checked_at = now,
                                   !.requested_top_k = requested_top_k_of(req.top_k),
                                   !.stages = @ \o << "CHECK_CACHE", "RETURN_CACHED" >> ]
                 ELSE [ req EXCEPT !.pc = "retrieve", !.checked_at = now,
                                   !.requested_top_k = requested_top_k_of(req.top_k),
                                   !.stages = Append(@, "CHECK_CACHE") ]
    /\ UNCHANGED << now, dbUrlSet, redisOn, settingsTable, corpus, tenantCache,
                    redis, ingestStore, prev, served, client, threads, collections >>

\* engine.py:82-86: the answer cache is consulted.
CheckCache(redisOk) ==
    /\ req.pc = "check_cache"
    /\ LET got == get_cached_answer(responseCache, redis, req.cache_key[1], redisOk) IN
       /\ responseCache' = got.cache
       /\ req' = IF got.hit # << >>
                 THEN [ req EXCEPT !.pc = "done", !.path = "cache_hit", !.result = got.hit,
                                   !.checked_at = now, !.hit_computed_at = got.born,
                                   !.stages = @ \o << "CHECK_CACHE", "RETURN_CACHED" >> ]
                 ELSE [ req EXCEPT !.pc = "retrieve", !.checked_at = now,
                                   !.requested_top_k = requested_top_k_of(req.top_k),
                                   !.stages = Append(@, "CHECK_CACHE") ]
    /\ UNCHANGED << now, dbUrlSet, redisOn, settingsTable, corpus, tenantCache,
                    redis, ingestStore, prev, served, client, threads, collections >>

\* engine.py:88-114: the retriever is called.  updateOk: the UPDATE of
\* _ensure_video_transcript succeeds.
Retrieve(dbOk, emb, store) ==
    /\ req.pc = "retrieve"
    /\ LET r == hybrid_retrieve(corpus, req.tenant, req.question, req.requested_top_k,
                                req.course, req.retrieval_strategy, req.vector_store,
                                dbUrlSet /\ dbOk, emb)
           scored == /\ dbUrlSet /\ dbOk
                     /\ collect_chunks(corpus, req.tenant, req.course) # << >>
           calls  == IF scored
                     THEN embed_texts_calls(
                              normalize_retrieval_strategy(req.retrieval_strategy),
                              normalize_vector_store(req.vector_store), emb, store)
                     ELSE 0
           called == [ req EXCEPT !.retriever_calls = @ + 1,
                                  !.stages = Append(@, "RETRIEVE"),
                                  !.embed_calls = @ + calls,
                                  !.embed_fallback_calls = @ + embed_fallback_calls(calls, emb) ]
       IN  req' = IF r.status = "ok"
                  THEN [ called EXCEPT !.pc = "ground_check", !.docs = r.rows ]
                  ELSE [ called EXCEPT !.pc = "done", !.path = "retrieval_error",
                             !.raised = r.status,
                             !.result = << retrieval_failed_result(req, r.status) >> ]
    /\ \E updateOk \in BOOLEAN :
          corpus' = IF dbUrlSet /\ dbOk
                    THEN collect_source_texts_stored(corpus, req.tenant, req.course,
                                                     updateOk)
                    ELSE corpus
    /\ UNCHANGED << now, dbUrlSet, redisOn, settingsTable, tenantCache,
                    responseCache, redis, ingestStore, prev, served, client, threads, collections >>

\* engine.py:115-130: rerank (a no-op) and the grounding check.
GroundCheck ==
    /\ req.pc = "ground_check"
    /\ LET grounded == grounded_docs(req.docs) IN
       req' = IF must_refuse(grounded)
              THEN [ req EXCEPT !.pc = "done", !.path = "refusal",
                                !.stages = @ \o << "GROUND_CHECK", "REFUSE" >>,
                                !.result = << refusal_result(req.course) >> ]
              ELSE [ req EXCEPT !.pc = "prompt_llm", !.grounded = grounded,
                                !.stages = Append(@, "GROUND_CHECK") ]
    /\ UNCHANGED << now, dbUrlSet, redisOn, settingsTable, corpus, tenantCache,
                    responseCache, redis, ingestStore, prev, served, client, threads, collections >>

\* engine.py:130-199: the prompt is built and the language model called; on
\* its failure the mock is asked (an exception of that call is not caught); an
\* answer of the first call is cached.
PromptLLM(llmOk, redisOk) ==
    /\ req.pc = "prompt_llm"
    /\ LET ranked   == req.grounded
           snippets == [ i \in 1..Len(Take(ranked, req.requested_top_k)) |->
                            ranked[i].snippet ]
           provider == OrElse(req.cfg.llm_provider, settings.llm_provider)
           prompt   == make_prompt(req.question, snippets)
           first    == provider_answer(prompt, provider, llmOk)
           fallback == provider_answer(prompt, "mock", llmOk)
           result   == answer_result(req, first.text, ranked)
       IN  IF first.raised /\ fallback.raised
           THEN /\ req' = [ req EXCEPT !.pc = "done", !.path = "raised",
                                !.stages = Append(@, "PROMPT_LLM"),
                                !.prompt = prompt, !.llm_calls = @ + 1, !.llm_failed = TRUE,
                                !.mock_calls = @ + 1, !.raised = "llm_error" ]
                /\ UNCHANGED << responseCache, redis >>
           ELSE IF first.raised
           THEN /\ req' = [ req EXCEPT !.pc = "done", !.path = "llm_fallback",
                                !.stages = Append(@, "PROMPT_LLM"),
                                !.prompt = prompt, !.llm_calls = @ + 1, !.llm_failed = TRUE,
                                !.mock_calls = @ + 1, !.answered_by = fallback.by,
                                !.result = << fallback_result(req, fallback.text, ranked) >> ]
                /\ UNCHANGED << responseCache, redis >>
           ELSE /\ req' = [ req EXCEPT !.pc = "done", !.path = "llm_success",
                                !.stages = Append(@, "PROMPT_LLM"),
                                !.prompt = prompt, !.cached = TRUE,
                                !.llm_calls = @ + (IF first.by = "mock" THEN 0 ELSE 1),
                                !.mock_calls = @ + (IF first.by = "mock" THEN 1 ELSE 0),
                                !.answered_by = first.by,
                                !.result = << result >> ]
                /\ responseCache' = set_cached_answer_local(responseCache,
                                                            req.cache_key[1], result)
                /\ redis' = set_cached_answer_shared(redis, req.cache_key[1], result, redisOk)
    /\ UNCHANGED << now, dbUrlSet, redisOn, settingsTable, corpus, tenantCache,
                    ingestStore, prev, served, client, threads, collections >>

\* IngestionPipeline.__init__: what constructing the pipeline raises, if anything
pipeline_raises(chunking_strategy, embedderOk) ==
    IF chunker_create_raises(chunking_strategy) THEN "unknown_chunking_strategy"
    ELSE IF ~embedderOk THEN "embedding_error"
    ELSE NULL

\* engine.py:48-58: what RAGEngine.ingest raises, if anything.  The pipeline
\* is built with the tenant's embedder and, if that raises, with the default one.
ingest_raises(chunking_strategy, emb) ==
    IF pipeline_raises(chunking_strategy, emb = "primary_ok") = NULL THEN NULL
    ELSE pipeline_raises(chunking_strategy, emb = "fallback_ok")

\* engine.py:48-58: the pipeline is built and ingests the text.  The rows go to
\* the store of the pipeline built for this call.
Ingest(emb) ==
    /\ req.pc = "ingest"
    /\ LET raised == ingest_raises(req.chunking_strategy, emb) IN
       req' = IF raised = NULL
              THEN [ req EXCEPT !.pc = "done", !.path = "ingested",
                                !.result = << [ chunks |-> 1, source |-> req.source ] >> ]
              ELSE [ req EXCEPT !.pc = "done", !.path = "raised", !.raised = raised ]
    /\ UNCHANGED << now, dbUrlSet, redisOn, settingsTable, corpus, tenantCache,
                    responseCache, redis, ingestStore, prev, served, client, threads, collections >>

\* The call returns (or raises) to its caller.
Return ==
    /\ req.pc = "done"
    /\ prev' = IF req.op = "answer"
               THEN [ valid |-> TRUE, tenant |-> req.tenant, question |-> req.question,
                      course |-> req.course, top_k |-> req.top_k, cfg |-> req.cfg,
                      cfg_from |-> req.cfg_from, cache_key |-> req.cache_key, result |-> req.result,
                      path |-> req.path, answered_by |-> req.answered_by,
                      finished_at |-> now ]
               ELSE prev
    /\ req' = NoRequest
    /\ UNCHANGED << now, dbUrlSet, redisOn, settingsTable, corpus, tenantCache,
                    responseCache, redis, ingestStore, served, client, threads, collections >>

Next ==
    \/ Tick
    \/ \E t \in Tenants, q \in Questions, c \in Courses, k \in TopKs : CallAnswer(t, q, c, k)
    \/ \E t \in Tenants, src \in IngestSources : CallIngest(t, src)
    \/ \E dbOk \in BOOLEAN : ResolveConfig(dbOk)
    \/ \E redisOk \in BOOLEAN : CheckCache(redisOk)
    \/ \E dbOk \in BOOLEAN, emb \in EmbedOutcomes, store \in StoreOutcomes :
          Retrieve(dbOk, emb, store)
    \/ GroundCheck
    \/ \E llmOk \in BOOLEAN, redisOk \in BOOLEAN : PromptLLM(llmOk, redisOk)
    \/ \E emb \in EmbedOutcomes : Ingest(emb)
    \/ Return

Spec == Init /\ [][Next]_vars

(***************************************************************************)
(* The retriever called on its own: PostgresKeywordRetriever.retrieve and   *)
(* HybridRetriever.retrieve are applied to every top_k, strategy and store  *)
(* over larger chunk sets than the engine's requests reach.                 *)
(***************************************************************************)
\* Number of pieces of the long document
MaxLectures == 14

\* top_k values a direct caller passes
RetrieverTopKs == { -1, 0, 1, 2, 12, 13, 30 }

RetrieverStrategies == { "keyword", "bm25", "semantic", "hybrid" }
RetrieverVectorStores == { "postgres", "chromadb", "faiss" }

\* Piece i of lectures.pdf as _build_chunks_from_sources cuts it; sim is the
\* cosine similarity of its embedding and the query's
Lecture(i) ==
    [ source_id |-> "document:9", source_name |-> "lectures.pdf", course |-> 1,
      snippet |-> "Lecture " \o ToString(i),
      words |-> { "tree" } \cup ( CASE i % 3 = 0 -> { "binary", "search" }
                                     [] i % 3 = 1 -> { "search" }
                                     [] OTHER     -> { } ),
      sim |-> ( i * 1500 ) % 10000 ]

LongCorpus == [ i \in 1..MaxLectures |-> Lecture(i) ]

\* A second upload of bst.txt under another id
Chunk1Again == [ Chunk1 EXCEPT !.source_id = "document:4" ]

\* Pieces that repeat: the same text twice in one document, and in two uploads
DupCorpus == << Chunk2, Chunk1, Chunk1, Chunk1Again, Chunk2, Chunk3 >>

\* Rows of the videos table: an uploaded recording not yet transcribed, a
\* linked video without transcript, and a video whose transcript is stored
Video7 ==
    [ source_id |-> "video:7", source_name |-> "Week 3 recording", course |-> 1,
      source_type |-> "upload", transcript |-> << >>,
      recording |-> << [ snippet |-> "Rotations keep a binary search tree balanced",
                         words |-> { "rotations", "keep", "binary", "search", "tree",
                                     "balanced" } ] >> ]
Video8 ==
    [ source_id |-> "video:8", source_name |-> "https://youtu.be/x", course |-> 2,
      source_type |-> "youtube", transcript |-> << >>, recording |-> << >> ]
Video9 ==
    [ source_id |-> "video:9", source_name |-> "Heaps", course |-> 2,
      source_type |-> "upload",
      transcript |-> << [ snippet |-> "A heap is a tree kept in an array",
                          words |-> { "heap", "tree", "kept", "array" } ] >>,
      recording |-> << >> ]

VideoCorpus == << Chunk2, Chunk3, Video7, Video8, Video9 >>

RetrieverCorpora ==
    { d.corpus : d \in Tenancies }
        \cup { (1 :> LongCorpus) @@ (2 :> DupCorpus),
               (1 :> DupCorpus) @@ (2 :> LongCorpus),
               (1 :> VideoCorpus) @@ (2 :> << Chunk1, Video7 >>) }

InitRetriever ==
    /\ now = 0
    /\ dbUrlSet = TRUE
    /\ redisOn = FALSE
    /\ settingsTable = [ t \in Tenants |-> << >> ]
    /\ corpus \in RetrieverCorpora
    /\ client = [ tenant |-> 1, course |-> NoCourse ]
    /\ tenantCache = [ t \in Tenants |-> << >> ]
    /\ responseCache = {}
    /\ redis = {}
    /\ ingestStore = << >>
    /\ req = NoRequest
    /\ prev = NoPrev
    /\ served = 0
    /\ threads = [ i \in Threads |-> NoRequest ]
    /\ collections = {}

\* A caller invokes HybridRetriever.retrieve(tenant_id, query, top_k, course_id,
\* retrieval_strategy=..., vector_store=...), which calls
\* PostgresKeywordRetriever.retrieve and cuts its rows.
CallRetrieve(t, q, k, c, rs, vs, dbOk, emb) ==
    /\ req.pc = "idle"
    /\ LET inner == retrieve(corpus, t, q, k, c, rs, vs, dbOk, emb)
           outer == hybrid_retrieve(corpus, t, q, k, c, rs, vs, dbOk, emb)
       IN  req' = [ NoRequest EXCEPT
                      !.pc = "done", !.op = "retrieve",
                      !.tenant = t, !.question = q, !.course = c, !.top_k = k,
                      !.retrieval_strategy = rs, !.vector_store = vs,
                      !.retriever_calls = 1,
                      !.path = IF outer.status = "ok" THEN "retrieved" ELSE "raised",
                      !.raised = IF outer.status = "ok" THEN NULL ELSE outer.status,
                      !.rows = inner.rows,
                      !.docs = outer.rows ]
    /\ \E updateOk \in BOOLEAN :
          corpus' = IF dbOk THEN collect_source_texts_stored(corpus, t, c, updateOk)
                    ELSE corpus
    /\ UNCHANGED << now, dbUrlSet, redisOn, settingsTable, tenantCache,
                    responseCache, redis, ingestStore, prev, served, client, threads, collections >>

(***************************************************************************)
(* Text extraction (postgres_retriever.py:576-656).  A call either returns  *)
(* a string or raises: [raised |-> FALSE, text |-> ...] or Raises.          *)
(***************************************************************************)
\* Extensions of the file names, and what the file at file_path holds:
\* nothing (no such file), text, a PDF whose content stream is stored plain or
\* deflated, or bytes without streams and without printable runs
FileExts == { ".txt", ".pdf", ".docx" }
FileKinds == { "missing", "text", "pdf_plain", "pdf_deflated", "random_bytes" }

\* Steps that can fail for reasons outside the bytes (I/O errors, memory):
\* opening or reading, locating the streams, inflating, decoding the text
\* operators, collecting printable runs
FailurePoints == { "open", "locate", "inflate", "decode_ops", "printable" }

PlainText == "Binary search tree notes for week three"
PdfText == "Binary search trees"

Raises == [ raised |-> TRUE, text |-> "" ]
Returns(text) == [ raised |-> FALSE, text |-> text ]

\* open(file_path, ...).read(): raises when the file is missing or unreadable
read_file(kind, fails) ==
    IF kind = "missing" \/ "open" \in fails THEN Raises ELSE Returns(kind)

\* _maybe_decompress: zlib.decompress, b"" (here "") on any exception
maybe_decompress(payload, fails) ==
    IF payload = "deflated_ops" /\ "inflate" \notin fails THEN "plain_ops" ELSE ""

\* _extract_pdf_text_ops and _decode_pdf_string: the strings shown by the Tj
\* and TJ operators of a content stream
extract_pdf_text_ops(data, fails) ==
    IF "decode_ops" \in fails THEN [ raised |-> TRUE, out |-> << >> ]
    ELSE [ raised |-> FALSE, out |-> IF data = "plain_ops" THEN << PdfText >> ELSE << >> ]

\* _extract_printable_text: the printable runs of at least 21 characters
extract_printable_text(kind, fails) ==
    IF "printable" \in fails THEN Raises
    ELSE Returns(IF kind = "text" THEN PlainText ELSE "")

\* The payloads between "stream" and "endstream" (line 601)
streams_of(kind) ==
    CASE kind = "pdf_plain"    -> << "plain_ops" >>
      [] kind = "pdf_deflated" -> << "deflated_ops" >>
      [] OTHER                 -> << >>

\* _extract_pdf_text
extract_pdf_text(kind, fails) ==
    IF read_file(kind, fails).raised THEN Returns("")
    ELSE IF "locate" \in fails THEN Raises
    ELSE LET candidates == { c \in UNION { { streams_of(kind)[i],
                                              maybe_decompress(streams_of(kind)[i], fails) } :
                                            i \in 1..Len(streams_of(kind)) } : c # "" }
             ops == { extract_pdf_text_ops(c, fails) : c \in candidates }
         IN  IF \E o \in ops : o.raised THEN Raises
             ELSE IF \A o \in ops : o.out = << >> THEN extract_printable_text(kind, fails)
             ELSE Returns(PdfText)

\* _extract_document_text, lines 580-588: the body of the try block
extract_document_text_body(ext, kind, fails) ==
    IF ext = ".txt"
    THEN ( IF read_file(kind, fails).raised THEN Raises
           ELSE Returns(IF kind = "text" THEN PlainText ELSE kind) )
    ELSE IF ext = ".pdf" THEN extract_pdf_text(kind, fails)
    ELSE IF read_file(kind, fails).raised THEN Raises
    ELSE extract_printable_text(kind, fails)

\* An extraction without the try block
extract_document_text_without_try(ext, kind, fails) ==
    extract_document_text_body(ext, kind, fails)

\* _extract_document_text: "except Exception: return ''" (lines 589-590)
extract_document_text(ext, kind, fails) ==
    IF extract_document_text_body(ext, kind, fails).raised THEN Returns("")
    ELSE extract_document_text_body(ext, kind, fails)

\* _collect_source_texts, line 174, calls _extract_document_text(file_path,
\* filename) for a document of the tenant.
CallExtractDocumentText(ext, kind, fails) ==
    /\ req.pc = "idle"
    /\ LET r == extract_document_text(ext, kind, fails) IN
       req' = [ NoRequest EXCEPT
                  !.pc = "done", !.op = "extract",
                  !.source = [ ext |-> ext, kind |-> kind, fails |-> fails ],
                  !.path = IF r.raised THEN "raised" ELSE "extracted",
                  !.raised = IF r.raised THEN "extraction_error" ELSE NULL,
                  !.result = IF r.raised THEN << >> ELSE << r.text >> ]
    /\ UNCHANGED << now, dbUrlSet, redisOn, settingsTable, corpus, tenantCache,
                    responseCache, redis, ingestStore, prev, served, client, threads, collections >>

NextRetriever ==
    \/ \E ext \in FileExts, kind \in FileKinds, fails \in SUBSET FailurePoints :
          CallExtractDocumentText(ext, kind, fails)
    \/ \E t \in Tenants, q \in Questions, k \in RetrieverTopKs, c \in Courses,
          rs \in RetrieverStrategies, vs \in RetrieverVectorStores,
          dbOk \in BOOLEAN, emb \in EmbedOutcomes :
            CallRetrieve(t, q, k, c, rs, vs, dbOk, emb)
    \/ Return

SpecRetriever == InitRetriever /\ [][NextRetriever]_vars

(***************************************************************************)
(* Properties.                                                             *)
(***************************************************************************)
\* An answer() call has produced its result and is about to return it.
AnswerDone == req.pc = "done" /\ req.op = "answer" /\ req.result # << >>

\* The configuration of the request in progress has been resolved.
Resolved == req.pc \notin { "idle", "resolve_config" }

Result == req.result[1]

Has(r, field) == field \in DOMAIN r

\* The second call repeats the first: same tenant, course, question and
\* resolved configuration.
SameRequestAsPrev ==
    /\ prev.valid
    /\ req.op = "answer"
    /\ req.tenant = prev.tenant /\ req.course = prev.course
    /\ req.question = prev.question
    /\ req.cfg = prev.cfg

\* C1: for every answer call that is not served from cache and whose retrieval
\* succeeds, if every retrieved candidate's combined score is below the
\* grounding threshold, the result has grounded=false, no sources and a
\* non-empty refusal message.
C1_GroundingInvariant ==
    ( /\ AnswerDone
      /\ req.path \notin { "cache_hit", "retrieval_error" }
      /\ \A i \in 1..Len(req.docs) : req.docs[i].combined < min_ground_score )
    => ( /\ Result.grounded = FALSE
         /\ Result.sources = << >>
         /\ Result.response \in RefusalTexts )

\* C2 as stated: on every path of answer, a result with grounded=false has no
\* sources and the fixed refusal template as its response text, and a result
\* with grounded=true has at least one source, all of them scoring at or above
\* the grounding threshold.
C2_UngroundedIsRefusal ==
    AnswerDone =>
        /\ Result.grounded = FALSE =>
              Result.sources = << >> /\ Result.response \in RefusalTexts
        /\ Result.grounded = TRUE =>
              /\ Len(Result.sources) >= 1
              /\ \A i \in 1..Len(Result.sources) :
                    Result.sources[i].score >= min_ground_score

\* C2 amended: on every path of answer, a result with grounded=false has no
\* sources and its response text is the fixed refusal template or, when the
\* retriever raised, the "Retrieval failed" message; a result with
\* grounded=true has at least one source, all of them scoring at or above the
\* grounding threshold.
C2_UngroundedIsRefusalOrRetrievalFailure ==
    AnswerDone =>
        /\ Result.grounded = FALSE =>
              /\ Result.sources = << >>
              /\ \/ Result.response \in RefusalTexts
                 \/ req.path = "retrieval_error" /\ Result.response[1] = "Retrieval failed"
        /\ Result.grounded = TRUE =>
              /\ Len(Result.sources) >= 1
              /\ \A i \in 1..Len(Result.sources) :
                    Result.sources[i].score >= min_ground_score

\* C2 witness: the retriever raised and answer returns its "Retrieval failed" result.
C2_Witness ==
    /\ AnswerDone
    /\ req.path = "retrieval_error"
    /\ Result.grounded = FALSE
    /\ Result.response \notin RefusalTexts

\* What C3 says apart from its bound on the number of sources: if at least
\* one candidate passed the grounding check and the call to the configured
\* provider raises, answer does not raise: the mock summarizer is invoked once
\* on the same prompt and the result has grounded=true, llm_fallback=true, a
\* warning and as sources the grounded candidates, cut to top_k_used.
LlmFailureFallsBack ==
    ( req.pc = "done" /\ req.llm_failed ) =>
        /\ req.raised = NULL
        /\ req.result # << >>
        /\ req.mock_calls = 1
        /\ req.grounded # << >>
        /\ Result.response = mock_answer(req.prompt)
        /\ Result.grounded = TRUE
        /\ Has(Result, "llm_fallback") /\ Result.llm_fallback = TRUE
        /\ Has(Result, "warning") /\ Result.warning # << >>
        /\ Result.sources = sources_of(grounded_docs(req.docs), req.requested_top_k)

\* C3: if at least one candidate passed the grounding check and the call to
\* the configured provider raises, answer does not raise: the mock summarizer
\* is invoked once on the same prompt and the result has grounded=true,
\* llm_fallback=true, a warning and as sources exactly the grounded candidates,
\* at most top_k of them.
C3_LlmFailureFallsBack ==
    /\ LlmFailureFallsBack
    /\ ( req.pc = "done" /\ req.llm_failed ) => Len(Result.sources) <= req.top_k

\* C4: an embedding failure during semantic scoring never makes the retrieval
\* fail, so answer never returns its "Retrieval failed" response because of an
\* embedding outage.
C4_EmbeddingFailureTolerated ==
    AnswerDone => ~( req.path = "retrieval_error" /\ req.raised = "embedding_error" )

\* C5: whenever the response text was produced by the mock summarizer instead
\* of the tenant's configured provider, the result carries llm_fallback=true
\* and a warning, and is not stored in the answer cache.
C5_MockAnswerAnnotated ==
    ( /\ AnswerDone
      /\ req.mock_calls > 0
      /\ req.answered_by = "mock"
      /\ StripLower(req.cfg.llm_provider) # "mock" )
    => ( /\ Has(Result, "llm_fallback") /\ Result.llm_fallback = TRUE
         /\ Has(Result, "warning")
         /\ ~req.cached )

\* C6: for two answer calls with the same tenant, course, question and
\* resolved configuration, the second made within the answer-cache TTL of the
\* first, the second returns the result of the first, from the cache, with
\* neither the retriever nor the language model invoked, whatever the outcome
\* of the first call was (answered, refused, LLM fallback).
C6_CacheIdempotence ==
    ( /\ AnswerDone
      /\ SameRequestAsPrev
      /\ prev.path \in { "llm_success", "refusal", "llm_fallback" }
      /\ req.checked_at - prev.finished_at < response_cache_ttl_seconds )
    => ( /\ req.path = "cache_hit"
         /\ req.result = prev.result
         /\ req.retriever_calls = 0
         /\ req.llm_calls = 0 /\ req.mock_calls = 0 )

\* The fields of TenantRetrievalConfig in which two configurations differ
DifferingFields(a, b) == { f \in CfgFields : a[f] # b[f] }

\* C7: for the same tenant, course and question, two resolved configurations
\* that differ in exactly one field of TenantRetrievalConfig yield different
\* answer-cache keys.
C7_KeyCoversConfiguration ==
    ( /\ Resolved /\ req.op = "answer"
      /\ prev.valid
      /\ req.tenant = prev.tenant /\ req.course = prev.course
      /\ req.question = prev.question
      /\ Cardinality(DifferingFields(req.cfg, prev.cfg)) = 1 )
    => req.cache_key # prev.cache_key

\* The tenant cache holds no configuration that a call at this time would use.
NothingCachedFor(t) ==
    \/ tenantCache[t] = << >>
    \/ now - tenantCache[t][1].at >= tenant_cache_ttl_seconds

\* C8 as stated: when DATABASE_URL is unset, the connection or query fails, or
\* the tenant has no settings row, _get_tenant_ai_settings returns the
\* defaults, and the result of such a failed read is not stored in the tenant
\* cache.
C8_FailedReadNotCached ==
    ( Resolved /\ req.cfg_from \in { "no_db_url", "read_error", "no_row" } )
    => ( req.cfg = default_cfg /\ NothingCachedFor(req.tenant) )

\* C8 amended: when DATABASE_URL is unset, the connection or query fails, or
\* the tenant has no settings row, _get_tenant_ai_settings returns the
\* defaults; the defaults returned because DATABASE_URL is unset or the
\* connection or query failed are not stored in the tenant cache (the defaults
\* read for a tenant without a row are cached like any row).
C8_ReadErrorNotCached ==
    /\ ( Resolved /\ req.cfg_from \in { "no_db_url", "read_error", "no_row" } )
          => req.cfg = default_cfg
    /\ ( Resolved /\ req.cfg_from \in { "no_db_url", "read_error" } )
          => NothingCachedFor(req.tenant)

\* C8 witness: the read failed for a tenant whose row an earlier call had
\* cached; the defaults were returned and the expired entry was left as it was.
C8_Witness ==
    /\ Resolved /\ req.cfg_from = "read_error" /\ req.cfg = default_cfg
    /\ tenantCache[req.tenant] # << >>
    /\ tenantCache[req.tenant][1].cfg # default_cfg
    /\ NothingCachedFor(req.tenant)

\* retrieve, lines 38-47: the names the retriever's branches test for
CanonicalRetrievalStrategies == { "keyword", "semantic", "hybrid" }
CanonicalVectorStores == { "postgres", "chroma", "faiss", "qdrant", "pinecone" }

\* RAGEngine._normalize_chunking_strategy: the names it returns
CanonicalChunkingStrategies == SupportedChunkers \cup { "overlap" }

\* C9: the chunking strategy, retrieval strategy and vector store names that
\* answer passes to the retriever, hashes into the cache key and reports in
\* its result are canonical names.
C9_CanonicalNames ==
    /\ ( Resolved /\ req.op = "answer" ) =>
          /\ req.retrieval_strategy \in CanonicalRetrievalStrategies
          /\ req.vector_store \in CanonicalVectorStores
          /\ req.chunking_strategy \in CanonicalChunkingStrategies
          /\ req.cache_key[1].retrieval_strategy \in CanonicalRetrievalStrategies
          /\ req.cache_key[1].vector_store \in CanonicalVectorStores
          /\ req.cache_key[1].chunking_strategy \in CanonicalChunkingStrategies
    /\ ( AnswerDone /\ Has(Result, "retrieval_strategy_used") ) =>
          /\ Result.retrieval_strategy_used \in CanonicalRetrievalStrategies
          /\ Result.vector_store_used \in CanonicalVectorStores
          /\ Result.chunking_strategy_used \in CanonicalChunkingStrategies

\* C10: for every string stored as chunking_strategy, answer and ingest
\* proceed with a chunker that ChunkingFactory supports and do not raise
\* because of the name.
C10_BadChunkingNameDefaulted ==
    req.pc = "done" => req.raised # "unknown_chunking_strategy"

\* C11: for every requested top_k, the value answer uses and reports as
\* top_k_used equals top_k clamped to [1, 25], and the number of sources
\* returned never exceeds that value (results computed by the request itself).
C11_TopKClamped ==
    ( AnswerDone /\ req.path # "cache_hit" ) =>
        LET clamped == Max(1, Min(25, req.top_k)) IN
        /\ req.requested_top_k = clamped
        /\ Has(Result, "top_k_used") => Result.top_k_used = clamped
        /\ Len(Result.sources) <= clamped

\* A direct call of the retriever has returned its rows.
RetrieveDone == req.pc = "done" /\ req.op = "retrieve" /\ req.raised = NULL

\* The rows are pairwise distinct in (source, snippet), the source being the
\* document or video the chunk was cut from.
NoRepeatedRow(rows) ==
    \A i, j \in 1..Len(rows) :
        ( rows[i].source_id = rows[j].source_id /\ rows[i].snippet = rows[j].snippet )
            => i = j

\* Every scoring chunk of the request: the ranking before any cut
FullRanking ==
    LET chunks == collect_chunks(corpus, req.tenant, req.course) IN
    rank_chunks(chunks, req.question, Tokenize(req.question),
                normalize_retrieval_strategy(req.retrieval_strategy), Len(chunks) + 1)

\* C12: for every top_k and chunk set, PostgresKeywordRetriever.retrieve and
\* HybridRetriever.retrieve return at most max(1, min(12, top_k)) rows, no two
\* of them the same (source, snippet), all of them among the first 2 x
\* max(1, min(12, top_k)) rows of the ranking.
C12_AtMostTopKRows ==
    RetrieveDone =>
        LET limit == Max(1, Min(12, req.top_k))
            ranking == FullRanking
        IN  /\ Len(req.rows) <= limit
            /\ Len(req.docs) <= limit
            /\ NoRepeatedRow(req.rows)
            /\ \A i \in 1..Len(req.rows) :
                  \E j \in 1..Min(2 * limit, Len(ranking)) :
                      ranking[j].ord = req.rows[i].ord
            /\ req.docs = Take(req.rows, req.top_k)

\* C12 witness: more than twelve chunks score, thirty rows are asked for and
\* twelve are returned.
C12_Witness ==
    /\ RetrieveDone
    /\ req.top_k = 30
    /\ Len(FullRanking) > 12
    /\ Len(req.docs) = 12

\* The chunk a returned row was made from
ChunkOf(d) == collect_chunks(corpus, req.tenant, req.course)[d.ord]

\* C13: under the hybrid strategy, the score reported for every returned chunk
\* equals 0.65 x its semantic score + 0.35 x its keyword score, within a
\* rounding tolerance of one unit (0.0001).
C13_HybridScoreFormula ==
    ( RetrieveDone /\ normalize_retrieval_strategy(req.retrieval_strategy) = "hybrid" ) =>
        \A i \in 1..Len(req.docs) :
            LET chunk    == ChunkOf(req.docs[i])
                keyword  == score_text(chunk, Tokenize(req.question))
                semantic == Similarity(chunk, req.question)
                expected == ( 65 * semantic + 35 * keyword ) \div 100
            IN  req.docs[i].score - expected \in -1..1

\* C14: the list retrieve returns is ordered by non-increasing reported score,
\* and two returned chunks of equal reported score appear in their original
\* chunk order.
C14_OrderedAndStable ==
    RetrieveDone =>
        \A i, j \in 1..Len(req.rows) :
            i < j =>
                /\ req.rows[i].score >= req.rows[j].score
                /\ req.rows[i].score = req.rows[j].score
                      => req.rows[i].ord < req.rows[j].ord

\* C14 witness: rows of different scores are returned, three of them tied.
C14_Witness ==
    /\ RetrieveDone
    /\ \E i, j \in 1..Len(req.rows) : req.rows[i].score > req.rows[j].score
    /\ \E i \in 1..Len(req.rows) :
          Cardinality({ j \in 1..Len(req.rows) : req.rows[j].score = req.rows[i].score }) >= 3

\* C15: within one answer request the configured embedding provider is
\* attempted at most once and the default fallback embedder at most once, and
\* the configured LLM provider is invoked at most once, followed by at most one
\* invocation of the local summarizer.
C15_OneShotFallback ==
    req.op = "answer" =>
        /\ req.embed_calls <= 1
        /\ req.embed_fallback_calls <= 1
        /\ req.llm_calls <= 1
        /\ req.mock_calls <= 1

\* The stage sequences of RAGEngine.answer the specification allows
StageOrders ==
    { << "RESOLVE_CONFIG", "CHECK_CACHE", "RETURN_CACHED" >>,
      << "RESOLVE_CONFIG", "CHECK_CACHE", "RETRIEVE" >>,
      << "RESOLVE_CONFIG", "CHECK_CACHE", "RETRIEVE", "GROUND_CHECK", "REFUSE" >>,
      << "RESOLVE_CONFIG", "CHECK_CACHE", "RETRIEVE", "GROUND_CHECK", "PROMPT_LLM" >> }

IsPrefix(s, t) == Len(s) <= Len(t) /\ s = SubSeq(t, 1, Len(s))

LlmInvoked == req.llm_calls + req.mock_calls > 0

\* C16: an answer request goes through RESOLVE_CONFIG, CHECK_CACHE, RETRIEVE,
\* GROUND_CHECK and then REFUSE or PROMPT_LLM, in that order; a cache hit ends
\* it before the retriever or the language model is invoked; the language model
\* is not invoked after a retrieval error nor when no row passed the grounding
\* check.
C16_StageOrder ==
    req.op = "answer" =>
        /\ \E order \in StageOrders : IsPrefix(req.stages, order)
        /\ req.pc = "done" /\ req.raised = NULL /\ req.path # "retrieval_error"
               => req.stages \in StageOrders
        /\ req.path = "retrieval_error"
               => req.stages = << "RESOLVE_CONFIG", "CHECK_CACHE", "RETRIEVE" >>
        /\ req.path = "cache_hit" => req.retriever_calls = 0 /\ ~LlmInvoked
        /\ req.path \in { "retrieval_error", "refusal" } => ~LlmInvoked
        /\ LlmInvoked => /\ req.retriever_calls = 1
                         /\ req.grounded # << >>
                         /\ req.grounded = grounded_docs(req.docs)
        /\ req.retriever_calls <= 1

C16_Witness ==
    /\ AnswerDone /\ req.path = "cache_hit"
    /\ req.stages = << "RESOLVE_CONFIG", "CHECK_CACHE", "RETURN_CACHED" >>
    /\ prev.valid /\ prev.path = "llm_success"
    /\ "PROMPT_LLM" \notin { req.stages[i] : i \in 1..Len(req.stages) }

\* Storage and cache states that differ from the current one only in what
\* belongs to tenants other than T
AltCorpora(T) ==
    { [ t \in Tenants |-> IF t = T THEN corpus[t] ELSE d.corpus[t] ] : d \in Tenancies }
AltTables(T) ==
    { [ t \in Tenants |-> IF t = T THEN settingsTable[t] ELSE d.settings[t] ] :
        d \in Tenancies }
AltTenantCaches(T) ==
    { [ t \in Tenants |-> IF t = T THEN tenantCache[t] ELSE x ] :
        x \in { << >>, << [ at |-> now, cfg |-> cfg_of_row(<< RowOpenAI >>) ] >>,
                       << [ at |-> now, cfg |-> cfg_of_row(<< RowBm25 >>) ] >> } }

\* An answer another tenant has cached for the question of the request
ForeignAnswer ==
    [ response |-> "the other tenant's answer", grounded |-> TRUE,
      sources |-> << [ source |-> "bst.txt", snippet |-> Chunk1.snippet, score |-> 9800 ] >> ]
ForeignKeys(T) == { [ req.cache_key[1] EXCEPT !.tenant_id = t ] : t \in Tenants \ { T } }
AltResponseCaches(T) ==
    { { e \in responseCache : e.key.tenant_id = T }
         \cup { [ key |-> k, at |-> now, value |-> ForeignAnswer, born |-> now ] :
                  k \in K } :
        K \in SUBSET ForeignKeys(T) }
AltShared(T) ==
    { { e \in redis : e.key.tenant_id = T }
         \cup { [ key |-> k, expires |-> now + response_cache_ttl_seconds,
                  value |-> ForeignAnswer, born |-> now ] : k \in K } :
        K \in SUBSET ForeignKeys(T) }

C18_RetrievalReadOnly == [][corpus' = corpus]_vars

ExtractDone == req.pc = "done" /\ req.op = "extract"

\* Nothing could be read or decoded: the file is missing or unreadable, or a
\* step of the extraction failed
TotalFailure ==
    \/ req.source.kind = "missing" \/ "open" \in req.source.fails
    \/ extract_document_text_body(req.source.ext, req.source.kind, req.source.fails).raised

\* C19: _extract_document_text never raises; for any file content, a missing
\* or unreadable file and any failure of stream location, inflate or operator
\* decoding it returns a string, the empty one on total failure.
C19_ExtractNeverRaises ==
    ExtractDone =>
        /\ req.raised = NULL
        /\ req.result # << >> /\ req.result[1] \in STRING
        /\ TotalFailure => req.result[1] = ""

\* Arbitrary bytes under a .pdf name whose stream location fails
C19_Witness ==
    /\ ExtractDone /\ req.source.ext = ".pdf" /\ req.source.kind = "random_bytes"
    /\ "locate" \in req.source.fails
    /\ req.result = << "" >>

\* The fields of the caller-facing answer contract
ContractFields ==
    { "response", "sources", "grounded", "provider_used", "model_used",
      "retrieval_strategy_used", "vector_store_used", "chunking_strategy_used",
      "top_k_used" }

\* C20: every result RAGEngine.answer returns, on every path, has all the
\* fields of the caller-facing contract.
C20_ResultHasContractFields == AnswerDone => ContractFields \subseteq DOMAIN Result

(***************************************************************************)
(* Chunking strategies (src/ai-service/chunking).  A text is a sequence of *)
(* atoms: single characters, and words of 500 and of 1200 lower-case        *)
(* letters that stand for long stretches of text.                          *)
(***************************************************************************)
Chars == { "a", "A", ".", " ", "\n", "\f", "#" }
Atoms == Chars \cup { "w500", "w1200" }

\* len() of an atom and of a text
AtomLen(c) == CASE c = "w500" -> 500 [] c = "w1200" -> 1200 [] OTHER -> 1
RECURSIVE TextLen(_)
TextLen(s) ==
    IF s = << >> THEN 0
    ELSE IF Len(s) = 1 THEN AtomLen(s[1])
    ELSE TextLen(SubSeq(s, 1, Len(s) \div 2)) + TextLen(SubSeq(s, Len(s) \div 2 + 1, Len(s)))

\* str.isspace() of an atom
IsSpace(c) == c \in { " ", "\n", "\f" }

\* str.strip(): from the first to the last atom that is not whitespace
Strip(s) ==
    LET solid == { i \in 1..Len(s) : ~IsSpace(s[i]) } IN
    IF solid = {} THEN << >>
    ELSE SubSeq(s, CHOOSE i \in solid : \A j \in solid : i <= j,
                   CHOOSE i \in solid : \A j \in solid : j <= i)

\* sep.join(parts)
RECURSIVE Join(_, _)
Join(parts, sep) ==
    IF parts = << >> THEN << >>
    ELSE IF Len(parts) = 1 THEN parts[1]
    ELSE Join(SubSeq(parts, 1, Len(parts) \div 2), sep) \o sep
            \o Join(SubSeq(parts, Len(parts) \div 2 + 1, Len(parts)), sep)

\* The number of atoms c in a row from position i of s on
RECURSIVE RunOf(_, _, _)
RunOf(s, i, c) == IF i <= Len(s) /\ s[i] = c THEN 1 + RunOf(s, i + 1, c) ELSE 0

\* The number of whitespace atoms in a row from position i of s on
RECURSIVE SpaceRun(_, _)
SpaceRun(s, i) == IF i <= Len(s) /\ IsSpace(s[i]) THEN 1 + SpaceRun(s, i + 1) ELSE 0

\* The length of the match, at position i of s, of the pattern a chunker
\* splits on (0: no match):
\*   "page"       r'\f|\n{3,}'                 (page_based_chunker.py:20)
\*   "paragraph"  r'\n\s*\n'                   (paragraph_chunker.py:23)
\*   "sentence"   r'(?<=[.!?])\s+(?=[A-Z])'    (sentence_chunker.py:22)
\*   otherwise the separator itself, a sequence of atoms (str.split)
MatchLen(pattern, s, i) ==
    CASE pattern = "page" ->
           IF s[i] = "\f" THEN 1
           ELSE IF RunOf(s, i, "\n") >= 3 THEN RunOf(s, i, "\n") ELSE 0
      [] pattern = "paragraph" ->
           IF s[i] # "\n" THEN 0
           ELSE LET last == i + SpaceRun(s, i) - 1
                    ends == { j \in (i + 1)..last : s[j] = "\n" }
                IN  IF ends = {} THEN 0
                    ELSE (CHOOSE j \in ends : \A k \in ends : k <= j) - i + 1
      [] pattern = "sentence" ->
           LET run == SpaceRun(s, i) IN
           IF run > 0 /\ i > 1 /\ s[i - 1] = "." /\ i + run <= Len(s) /\ s[i + run] = "A"
           THEN run ELSE 0
      [] OTHER ->
           IF i + Len(pattern) - 1 <= Len(s) /\ SubSeq(s, i, i + Len(pattern) - 1) = pattern
           THEN Len(pattern) ELSE 0

\* The positions, from i on, where the matches found from left to right start
RECURSIVE MatchStarts(_, _, _)
MatchStarts(pattern, s, i) ==
    LET ahead == { j \in i..Len(s) : MatchLen(pattern, s, j) > 0 }
        first == CHOOSE j \in ahead : \A k \in ahead : j <= k
    IN  IF ahead = {} THEN {}
        ELSE { first } \cup MatchStarts(pattern, s, first + MatchLen(pattern, s, first))

\* The k-th smallest member of a set of numbers
Nth(S, k) == CHOOSE i \in S : Cardinality({ j \in S : j < i }) = k - 1

\* re.split(pattern, s) and s.split(separator): the pieces between the matches
Split(pattern, s) ==
    LET starts == MatchStarts(pattern, s, 1)
        n == Cardinality(starts)
        From(k) == IF k = 1 THEN 1
                   ELSE Nth(starts, k - 1) + MatchLen(pattern, s, Nth(starts, k - 1))
        To(k) == IF k = n + 1 THEN Len(s) ELSE Nth(starts, k) - 1
    IN  [ k \in 1..(n + 1) |-> SubSeq(s, From(k), To(k)) ]

\* str.split(): the words, maximal runs of atoms that are not whitespace
SplitWords(s) ==
    LET starts == { i \in 1..Len(s) : ~IsSpace(s[i]) /\ ( i = 1 \/ IsSpace(s[i - 1]) ) }
        ends == { i \in 1..Len(s) : ~IsSpace(s[i]) /\ ( i = Len(s) \/ IsSpace(s[i + 1]) ) }
    IN  [ k \in 1..Cardinality(starts) |-> SubSeq(s, Nth(starts, k), Nth(ends, k)) ]

\* [ s.strip() for s in parts if s.strip() ]
StripNonEmpty(parts) ==
    LET NonBlank(p) == Strip(p) # << >>
        kept == SelectSeq(parts, NonBlank)
    IN  [ i \in 1..Len(kept) |-> Strip(kept[i]) ]

\* BaseChunker.validate_text raises ValueError for a text that is empty or blank
validate_text_raises(text) == Strip(text) = << >>

\* What chunk(text) gives: the chunks, each with its content and index, or
\* the ValueError of validate_text
ChunkingRaises == [ raised |-> TRUE, chunks |-> << >> ]
Chunked(chunks) == [ raised |-> FALSE, chunks |-> chunks ]

\* range(0, n, step) for a positive step
RangeByStep(n, step) == [ k \in 1..((n + step - 1) \div step) |-> (k - 1) * step ]

\* seq[i:i + size] with i counted from 0
Slice(seq, i, size) == SubSeq(seq, i + 1, Min(Len(seq), i + size))

\* FixedSizeChunker.chunk
fixed_size_chunk(text, chunk_size, overlap, min_chunk_size) ==
    LET words == SplitWords(text)
        BigEnough(i) == Len(Slice(words, i, chunk_size)) >= min_chunk_size
        starts == SelectSeq(RangeByStep(Len(words), chunk_size - overlap), BigEnough)
    IN  IF validate_text_raises(text) THEN ChunkingRaises
        ELSE Chunked([ k \in 1..Len(starts) |->
                 [ content |-> Join(Slice(words, starts[k], chunk_size), << " " >>),
                   index   |-> k - 1 ] ])

\* ParagraphChunker.chunk
paragraph_chunk(text, max_paragraphs_per_chunk, min_paragraph_length) ==
    LET LongEnough(p) == TextLen(p) >= min_paragraph_length
        paragraphs == SelectSeq(StripNonEmpty(Split("paragraph", text)), LongEnough)
        starts == RangeByStep(Len(paragraphs), max_paragraphs_per_chunk)
    IN  IF validate_text_raises(text) THEN ChunkingRaises
        ELSE Chunked([ k \in 1..Len(starts) |->
                 [ content |-> Join(Slice(paragraphs, starts[k], max_paragraphs_per_chunk),
                                    << "\n", "\n" >>),
                   index   |-> k - 1 ] ])

\* str.isupper(): some cased character, and none of them lower-case
IsUpper(line) ==
    /\ \E i \in 1..Len(line) : line[i] = "A"
    /\ \A i \in 1..Len(line) : line[i] \notin { "a", "w500", "w1200" }

\* SemanticChunker._is_header (the texts of the model have no digits)
is_header(line) ==
    LET stripped == Strip(line) IN
    IF TextLen(stripped) < 3 THEN FALSE
    ELSE \/ /\ RunOf(stripped, 1, "#") \in 1..6
            /\ RunOf(stripped, 1, "#") < Len(stripped)
            /\ IsSpace(stripped[RunOf(stripped, 1, "#") + 1])
         \/ TextLen(stripped) >= 4 /\ IsUpper(stripped) /\ Len(SplitWords(stripped)) <= 10

\* SemanticChunker.chunk, lines 47-98: the loop from line i on, and the final section
RECURSIVE semantic_sections(_, _, _, _, _, _)
semantic_sections(lines, i, current_section, chunks, max_chunk_size, look_for_headers) ==
    LET Section == [ content |-> Join(current_section, << "\n" >>), index |-> Len(chunks) ] IN
    IF i > Len(lines)
    THEN ( IF current_section # << >> THEN Append(chunks, Section) ELSE chunks )
    ELSE LET line == lines[i]
             current_size == TextLen(Join(current_section, << >>))
             is_boundary ==
                \/ look_for_headers /\ is_header(Strip(line))
                \/ current_size + TextLen(line) > max_chunk_size /\ current_section # << >>
         IN  IF is_boundary /\ current_section # << >>
             THEN semantic_sections(lines, i + 1, << line >>, Append(chunks, Section),
                                    max_chunk_size, look_for_headers)
             ELSE semantic_sections(lines, i + 1, Append(current_section, line), chunks,
                                    max_chunk_size, look_for_headers)

\* SemanticChunker.chunk
semantic_chunk(text, max_chunk_size, look_for_headers) ==
    IF validate_text_raises(text) THEN ChunkingRaises
    ELSE Chunked(semantic_sections(Split(<< "\n" >>, text), 1, << >>, << >>,
                                   max_chunk_size, look_for_headers))

\* SentenceChunker.chunk
sentence_chunk(text, sentences_per_chunk, overlap_sentences) ==
    LET sentences == StripNonEmpty(Split("sentence", text))
        starts == RangeByStep(Len(sentences), sentences_per_chunk - overlap_sentences)
    IN  IF validate_text_raises(text) THEN ChunkingRaises
        ELSE Chunked([ k \in 1..Len(starts) |->
                 [ content |-> Join(Slice(sentences, starts[k], sentences_per_chunk), << " " >>),
                   index   |-> k - 1 ] ])

\* PageBasedChunker.chunk, lines 26-73: the loop from page i on, and the final flush
RECURSIVE page_chunks(_, _, _, _, _, _)
page_chunks(pages, i, combined_text, chunks, combine_short_pages, min_page_length) ==
    LET Flushed == IF combined_text # << >>
                   THEN Append(chunks, [ content |-> Strip(combined_text),
                                         index |-> Len(chunks) ])
                   ELSE chunks
    IN  IF i > Len(pages) THEN Flushed
        ELSE LET page_text == Strip(pages[i]) IN
             IF page_text = << >>
             THEN page_chunks(pages, i + 1, combined_text, chunks,
                              combine_short_pages, min_page_length)
             ELSE IF combine_short_pages /\ TextLen(page_text) < min_page_length
             THEN page_chunks(pages, i + 1, combined_text \o page_text \o << "\n", "\n" >>,
                              chunks, combine_short_pages, min_page_length)
             ELSE page_chunks(pages, i + 1, << >>,
                              Append(Flushed, [ content |-> page_text,
                                                index |-> Len(Flushed) ]),
                              combine_short_pages, min_page_length)

\* PageBasedChunker.chunk
page_based_chunk(text, combine_short_pages, min_page_length) ==
    IF validate_text_raises(text) THEN ChunkingRaises
    ELSE Chunked(page_chunks(Split("page", text), 1, << >>, << >>,
                             combine_short_pages, min_page_length))

\* ParentChildChunker._create_children: index is -1, "will be set by parent"
create_children(parent_words, child_size, child_overlap) ==
    LET BigEnough(i) == Len(Slice(parent_words, i, child_size)) >= 50
        starts == SelectSeq(RangeByStep(Len(parent_words), child_size - child_overlap),
                            BigEnough)
    IN  [ k \in 1..Len(starts) |->
            [ content |-> Join(Slice(parent_words, starts[k], child_size), << " " >>),
              index   |-> -1 ] ]

\* ParentChildChunker.chunk, lines 33-56: the loop from parent k on
RECURSIVE parent_child_chunks(_, _, _, _, _, _)
parent_child_chunks(words, k, chunks, parent_size, child_size, child_overlap) ==
    IF (k - 1) * parent_size >= Len(words) THEN chunks
    ELSE LET parent_words == Slice(words, (k - 1) * parent_size, parent_size)
             parent == [ content |-> Join(parent_words, << " " >>), index |-> Len(chunks) ]
         IN  parent_child_chunks(words, k + 1,
                 Append(chunks, parent) \o create_children(parent_words, child_size,
                                                           child_overlap),
                 parent_size, child_size, child_overlap)

\* ParentChildChunker.chunk
parent_child_chunk(text, parent_size, child_size, child_overlap) ==
    IF validate_text_raises(text) THEN ChunkingRaises
    ELSE Chunked(parent_child_chunks(SplitWords(text), 1, << >>, parent_size, child_size,
                                     child_overlap))

\* RecursiveChunker._recursive_split, and its loop of lines 42-63 from split k
\* on with the chunk in progress and the result so far
RECURSIVE recursive_split(_, _, _)
RECURSIVE merge_splits(_, _, _, _, _, _)
merge_splits(splits, k, current_chunk, result, separators, chunk_size) ==
    IF k > Len(splits)
    THEN ( IF current_chunk # << >> THEN Append(result, current_chunk) ELSE result )
    ELSE LET split == splits[k]
             over == TextLen(current_chunk) + TextLen(split) > chunk_size
                        /\ current_chunk # << >>
             saved == IF over THEN Append(result, current_chunk) ELSE result
             current == IF over THEN << >> ELSE current_chunk
         IN  IF TextLen(split) > chunk_size
             THEN merge_splits(splits, k + 1, << >>,
                      ( IF current # << >> THEN Append(saved, current) ELSE saved )
                          \o recursive_split(split, Tail(separators), chunk_size),
                      separators, chunk_size)
             ELSE merge_splits(splits, k + 1,
                      ( IF current # << >> THEN current \o Head(separators) ELSE current )
                          \o split,
                      saved, separators, chunk_size)

recursive_split(text, separators, chunk_size) ==
    IF separators = << >> THEN << text >>
    ELSE merge_splits(Split(Head(separators), text), 1, << >>, << >>, separators, chunk_size)

\* RecursiveChunker.__init__, line 13
default_separators ==
    << << "\n", "\n", "\n" >>, << "\n", "\n" >>, << "\n" >>, << ".", " " >>, << " " >> >>

\* RecursiveChunker.chunk
recursive_chunk(text, chunk_size, separators) ==
    LET NonBlank(t) == Strip(t) # << >>
        kept == SelectSeq(recursive_split(text, separators, chunk_size), NonBlank)
    IN  IF validate_text_raises(text) THEN ChunkingRaises
        ELSE Chunked([ k \in 1..Len(kept) |-> [ content |-> Strip(kept[k]), index |-> k - 1 ] ])

(***************************************************************************)
(* The chunkers called on their own, each made by ChunkingFactory.create    *)
(* with its default parameters, on every short text and on a few longer     *)
(* ones.                                                                    *)
(***************************************************************************)
\* Length of the texts that are enumerated in full
MaxTextLen == 3

\* Sixty one-letter words, enough for one child chunk of ParentChildChunker
SixtyWords == Join([ i \in 1..60 |-> << "a" >> ], << " " >>)

\* A text laid out as that of test_chunking.py: a blank line, a header, paragraphs
HeadedText ==
    << "\n", "#", " ", "A", "\n", "\n", "A", " ", "a", ".", "\n", "\n",
       "A", " ", "a", ".", " ", "A", ".", "\n", "\n", "#", "#", " ", "A", "\n", "\n",
       "w500", " ", "w500", "\n" >>

ShortTexts == UNION { [ 1..n -> Atoms ] : n \in 0..MaxTextLen }
Texts == ShortTexts \cup { SixtyWords, HeadedText }

\* chunker.chunk(text) for the chunker ChunkingFactory.create(strategy) returns:
\* the constructors' default parameters
factory_chunk(strategy, text) ==
    CASE strategy = "fixed_size"   -> fixed_size_chunk(text, 500, 50, 50)
      [] strategy = "page_based"   -> page_based_chunk(text, TRUE, 100)
      [] strategy = "paragraph"    -> paragraph_chunk(text, 5, 50)
      [] strategy = "semantic"     -> semantic_chunk(text, 1000, TRUE)
      [] strategy = "parent_child" -> parent_child_chunk(text, 2000, 400, 50)
      [] strategy = "sentence"     -> sentence_chunk(text, 5, 1)
      [] strategy = "recursive"    -> recursive_chunk(text, 1000, default_separators)

\* A caller invokes ChunkingFactory.create(strategy).chunk(text).
CallChunk(strategy, text) ==
    /\ req.pc = "idle"
    /\ LET r == factory_chunk(strategy, text) IN
       req' = [ NoRequest EXCEPT
                  !.pc = "done", !.op = "chunk",
                  !.chunking_strategy = strategy,
                  !.source = text,
                  !.path = IF r.raised THEN "raised" ELSE "chunked",
                  !.raised = IF r.raised THEN "value_error" ELSE NULL,
                  !.result = IF r.raised THEN << >> ELSE << r.chunks >> ]
    /\ UNCHANGED << now, dbUrlSet, redisOn, settingsTable, corpus, tenantCache,
                    responseCache, redis, ingestStore, prev, served, client, threads, collections >>

InitChunker ==
    /\ now = 0
    /\ dbUrlSet = FALSE
    /\ redisOn = FALSE
    /\ settingsTable = [ t \in Tenants |-> << >> ]
    /\ corpus = [ t \in Tenants |-> << >> ]
    /\ client = [ tenant |-> 1, course |-> NoCourse ]
    /\ tenantCache = [ t \in Tenants |-> << >> ]
    /\ responseCache = {}
    /\ redis = {}
    /\ ingestStore = << >>
    /\ req = NoRequest
    /\ prev = NoPrev
    /\ served = 0
    /\ threads = [ i \in Threads |-> NoRequest ]
    /\ collections = {}

NextChunker ==
    \/ \E strategy \in SupportedChunkers, text \in Texts : CallChunk(strategy, text)
    \/ Return

SpecChunker == InitChunker /\ [][NextChunker]_vars

ChunkDone == req.pc = "done" /\ req.op = "chunk" /\ req.raised = NULL

\* C21: for every non-empty text and every strategy of the factory, every
\* chunk returned has non-empty content.
C21_ChunksNonEmpty ==
    ( ChunkDone /\ req.source # << >> ) =>
        \A i \in 1..Len(Result) : Result[i].content # << >>

\* ---------------------------------------------------------------------------
\* Several engine instances over one shared cache (engine.py:19-40)
\* ---------------------------------------------------------------------------

\* RAGEngine.__init__: a new engine instance (another worker, or the service
\* restarted) starts with empty in-process maps; the database and the shared
\* cache keep what they hold.
Restart ==
    /\ req.pc = "idle"
    /\ served > 0
    /\ tenantCache' = [ t \in Tenants |-> << >> ]
    /\ responseCache' = {}
    /\ ingestStore' = << >>
    /\ served' = 0
    /\ prev' = NoPrev
    /\ UNCHANGED << now, dbUrlSet, redisOn, settingsTable, corpus, redis, req, client, threads, collections >>

InitShared ==
    /\ Init
    /\ dbUrlSet
    /\ redisOn
    /\ settingsTable[1] = << RowBm25 >>
    /\ client = [ tenant |-> 1, course |-> NoCourse ]

NextShared ==
    \/ Tick
    \/ Restart
    \/ \E t \in Tenants : CallAnswer(t, "binary search tree", NoCourse, 1)
    \/ \E dbOk \in BOOLEAN : ResolveConfig(dbOk)
    \/ \E redisOk \in BOOLEAN : CheckCache(redisOk)
    \/ \E dbOk \in BOOLEAN, emb \in EmbedOutcomes, store \in StoreOutcomes :
          Retrieve(dbOk, emb, store)
    \/ GroundCheck
    \/ \E llmOk \in BOOLEAN, redisOk \in BOOLEAN : PromptLLM(llmOk, redisOk)
    \/ Return

SpecShared == InitShared /\ [][NextShared]_vars

\* C22: a tenant configuration is never returned from the cache 45 seconds or
\* more after it was loaded, and an answer is never returned from the answer
\* cache 90 seconds or more after it was computed.
C22_EntriesExpire ==
    /\ ( Resolved /\ req.cfg_from = "cache" ) =>
           \A e \in { tenantCache[req.tenant][j] : j \in 1..Len(tenantCache[req.tenant]) } :
               now - e.at < tenant_cache_ttl_seconds
    /\ ( req.pc = "done" /\ req.path = "cache_hit" ) =>
           now - req.hit_computed_at < response_cache_ttl_seconds

\* ---------------------------------------------------------------------------
\* Concurrent answer() calls on one engine (engine.py:60-199, 231-261).  Each
\* thread runs answer() one cache access at a time; a dict read and a dict
\* assignment are each one step.
\* ---------------------------------------------------------------------------

\* The locals of a thread once its configuration is known (engine.py:62-81)
with_config(th, cfg, from) ==
    LET rs  == OrElse(cfg.retrieval_strategy, settings.retrieval_strategy)
        vs  == OrElse(cfg.vector_store, settings.vector_store)
        cs  == normalize_chunking_strategy(
                   OrElse(cfg.chunking_strategy, settings.chunking_strategy))
        ep  == resolve_embedding_provider(cfg.embedding_provider, cfg.embedding_model)
        key == make_answer_cache_key(th.tenant, th.course, th.question, rs, vs, cs,
                   ep, cfg.embedding_model,
                   OrElse(cfg.llm_provider, settings.llm_provider), cfg.llm_model)
    IN  [ th EXCEPT !.cfg = cfg, !.cfg_from = from,
                    !.retrieval_strategy = rs, !.vector_store = vs,
                    !.chunking_strategy = cs, !.embedding_provider = ep,
                    !.embedding_model = cfg.embedding_model,
                    !.cache_key = << key >>,
                    !.requested_top_k = requested_top_k_of(th.top_k) ]

\* A key kept in a field of the engine, which the latest caller overwrites
store_key_of_engine(i) ==
    IF \E j \in Threads \ {i} : threads[j].cache_key # << >>
    THEN threads[CHOOSE j \in Threads \ {i} : threads[j].cache_key # << >>].cache_key[1]
    ELSE threads[i].cache_key[1]

\* The key a thread stores its answer under: its local cache_key (engine.py:82, 178)
store_key(i) == threads[i].cache_key[1]

ThreadCall(i, t, q) ==
    /\ threads[i].pc = "idle"
    /\ served < Cardinality(Threads)
    /\ served' = served + 1
    /\ threads' = [ threads EXCEPT ![i] =
                      [ NoRequest EXCEPT !.pc = "read_tenant_cache", !.op = "answer",
                                         !.tenant = t, !.question = q, !.top_k = 1,
                                         !.started_at = now ] ]
    /\ UNCHANGED << now, dbUrlSet, redisOn, settingsTable, corpus, tenantCache,
                    responseCache, redis, ingestStore, req, prev, client, collections >>

\* engine.py:258-260: cached = self._tenant_cache.get(tenant_id)
ThreadReadTenantCache(i) ==
    /\ threads[i].pc = "read_tenant_cache"
    /\ LET th     == threads[i]
           cached == tenantCache[th.tenant]
       IN  threads' = [ threads EXCEPT ![i] =
               IF cached # << >> /\ now - cached[1].at < tenant_cache_ttl_seconds
               THEN [ with_config(th, cached[1].cfg, "cache") EXCEPT !.pc = "read_local" ]
               ELSE [ th EXCEPT !.pc = "load_settings" ] ]
    /\ UNCHANGED << now, dbUrlSet, redisOn, settingsTable, corpus, tenantCache,
                    responseCache, redis, ingestStore, req, prev, served, client, collections >>

\* engine.py:262-307: the row of tenant_ai_settings is read
ThreadLoadSettings(i, dbOk) ==
    /\ threads[i].pc = "load_settings"
    /\ LET th == threads[i] IN
       threads' = [ threads EXCEPT ![i] =
           IF ~dbUrlSet THEN [ with_config(th, default_cfg, "no_db_url") EXCEPT !.pc = "read_local" ]
           ELSE IF ~dbOk THEN [ with_config(th, default_cfg, "read_error") EXCEPT !.pc = "read_local" ]
           ELSE [ with_config(th, cfg_of_row(settingsTable[th.tenant]),
                              IF settingsTable[th.tenant] = << >> THEN "no_row" ELSE "row")
                  EXCEPT !.pc = "write_tenant_cache", !.storage_reads = 1 ] ]
    /\ UNCHANGED << now, dbUrlSet, redisOn, settingsTable, corpus, tenantCache,
                    responseCache, redis, ingestStore, req, prev, served, client, collections >>

\* engine.py:305: self._tenant_cache[tenant_id] = (now, cfg)
ThreadWriteTenantCache(i) ==
    /\ threads[i].pc = "write_tenant_cache"
    /\ tenantCache' = [ tenantCache EXCEPT ![threads[i].tenant] =
                          << [ at |-> now, cfg |-> threads[i].cfg ] >> ]
    /\ threads' = [ threads EXCEPT ![i].pc = "read_local" ]
    /\ UNCHANGED << now, dbUrlSet, redisOn, settingsTable, corpus,
                    responseCache, redis, ingestStore, req, prev, served, client, collections >>

\* engine.py:232-235: hit = self._response_cache.get(key)
ThreadReadLocal(i) ==
    /\ threads[i].pc = "read_local"
    /\ LET th    == threads[i]
           local == { e \in EntriesOf(responseCache, th.cache_key[1]) :
                        now - e.at < response_cache_ttl_seconds }
       IN  threads' = [ threads EXCEPT ![i] =
               IF local # {}
               THEN [ th EXCEPT !.pc = "done", !.path = "cache_hit", !.checked_at = now,
                                !.result = << (CHOOSE e \in local : TRUE).value >>,
                                !.hit_computed_at = (CHOOSE e \in local : TRUE).born ]
               ELSE [ th EXCEPT !.pc = "read_shared" ] ]
    /\ UNCHANGED << now, dbUrlSet, redisOn, settingsTable, corpus, tenantCache,
                    responseCache, redis, ingestStore, req, prev, served, client, collections >>

\* engine.py:236-241: raw = self._redis.get(key)
ThreadReadShared(i, redisOk) ==
    /\ threads[i].pc = "read_shared"
    /\ LET th     == threads[i]
           remote == { e \in EntriesOf(redis, th.cache_key[1]) : now < e.expires }
       IN  threads' = [ threads EXCEPT ![i] =
               IF redisOn /\ redisOk /\ remote # {}
               THEN [ th EXCEPT !.pc = "refill_local", !.path = "cache_hit",
                                !.checked_at = now,
                                !.result = << (CHOOSE e \in remote : TRUE).value >>,
                                !.hit_computed_at = (CHOOSE e \in remote : TRUE).born ]
               ELSE [ th EXCEPT !.pc = "compute", !.checked_at = now ] ]
    /\ UNCHANGED << now, dbUrlSet, redisOn, settingsTable, corpus, tenantCache,
                    responseCache, redis, ingestStore, req, prev, served, client, collections >>

\* engine.py:242-243: self._response_cache[key] = (now, data); return data
ThreadRefillLocal(i) ==
    /\ threads[i].pc = "refill_local"
    /\ LET th == threads[i] IN
       responseCache' = (responseCache \ EntriesOf(responseCache, th.cache_key[1]))
                           \cup { [ key |-> th.cache_key[1], at |-> now,
                                    value |-> th.result[1], born |-> th.hit_computed_at ] }
    /\ threads' = [ threads EXCEPT ![i].pc = "done" ]
    /\ UNCHANGED << now, dbUrlSet, redisOn, settingsTable, corpus, tenantCache,
                    redis, ingestStore, req, prev, served, client, collections >>

\* engine.py:88-177: retrieval, grounding check, prompt and language model, as
\* the locals of the thread afterwards; none of them touches the caches.
thread_outcome(th, dbOk, emb, llmOk) ==
    LET r        == hybrid_retrieve(corpus, th.tenant, th.question, th.requested_top_k,
                                    th.course, th.retrieval_strategy, th.vector_store,
                                    dbUrlSet /\ dbOk, emb)
        grounded == grounded_docs(r.rows)
        had      == [ th EXCEPT !.docs = r.rows, !.grounded = grounded,
                                !.retriever_calls = 1 ]
        snippets == [ k \in 1..Len(Take(grounded, th.requested_top_k)) |->
                         grounded[k].snippet ]
        provider == OrElse(th.cfg.llm_provider, settings.llm_provider)
        prompt   == make_prompt(th.question, snippets)
        first    == provider_answer(prompt, provider, llmOk)
        fallback == provider_answer(prompt, "mock", llmOk)
    IN  IF r.status # "ok"
        THEN [ th EXCEPT !.pc = "done", !.path = "retrieval_error",
                         !.retriever_calls = 1, !.raised = r.status,
                         !.result = << retrieval_failed_result(th, r.status) >> ]
        ELSE IF must_refuse(grounded)
        THEN [ had EXCEPT !.pc = "done", !.path = "refusal",
                          !.result = << refusal_result(th.course) >> ]
        ELSE IF first.raised
        THEN [ had EXCEPT !.pc = "done", !.path = "llm_fallback", !.prompt = prompt,
                          !.llm_failed = TRUE, !.answered_by = fallback.by,
                          !.result = << fallback_result(had, fallback.text, grounded) >> ]
        ELSE [ had EXCEPT !.pc = "write_local", !.path = "llm_success",
                          !.prompt = prompt, !.answered_by = first.by,
                          !.result = << answer_result(had, first.text, grounded) >> ]

\* engine.py:88-177: the thread computes its answer
ThreadCompute(i, dbOk, emb, llmOk) ==
    /\ threads[i].pc = "compute"
    /\ threads' = [ threads EXCEPT ![i] = thread_outcome(threads[i], dbOk, emb, llmOk) ]
    /\ UNCHANGED << now, dbUrlSet, redisOn, settingsTable, corpus, tenantCache,
                    responseCache, redis, ingestStore, req, prev, served, client, collections >>

\* engine.py:249: self._response_cache[key] = (now, value)
ThreadWriteLocal(i) ==
    /\ threads[i].pc = "write_local"
    /\ responseCache' = set_cached_answer_local(responseCache, store_key(i),
                                                threads[i].result[1])
    /\ threads' = [ threads EXCEPT ![i].pc = "write_shared", ![i].cached = TRUE ]
    /\ UNCHANGED << now, dbUrlSet, redisOn, settingsTable, corpus, tenantCache,
                    redis, ingestStore, req, prev, served, client, collections >>

\* engine.py:250-255: self._redis.setex(key, ttl, json); return result
ThreadWriteShared(i, redisOk) ==
    /\ threads[i].pc = "write_shared"
    /\ redis' = set_cached_answer_shared(redis, store_key(i), threads[i].result[1], redisOk)
    /\ threads' = [ threads EXCEPT ![i].pc = "done" ]
    /\ UNCHANGED << now, dbUrlSet, redisOn, settingsTable, corpus, tenantCache,
                    responseCache, ingestStore, req, prev, served, client, collections >>

\* answer() returns to its caller
ThreadReturn(i) ==
    /\ threads[i].pc = "done"
    /\ threads' = [ threads EXCEPT ![i] = NoRequest ]
    /\ UNCHANGED << now, dbUrlSet, redisOn, settingsTable, corpus, tenantCache,
                    responseCache, redis, ingestStore, req, prev, served, client, collections >>

ThreadQuestions == { "binary search tree", " Binary Search Tree " }

InitConcurrent ==
    /\ Init
    /\ dbUrlSet
    /\ settingsTable[1] = << RowBm25 >>
    /\ client = [ tenant |-> 1, course |-> NoCourse ]

NextConcurrent ==
    \/ \E i \in Threads, t \in Tenants, q \in ThreadQuestions : ThreadCall(i, t, q)
    \/ \E i \in Threads : ThreadReadTenantCache(i)
    \/ \E i \in Threads, dbOk \in BOOLEAN : ThreadLoadSettings(i, dbOk)
    \/ \E i \in Threads : ThreadWriteTenantCache(i)
    \/ \E i \in Threads : ThreadReadLocal(i)
    \/ \E i \in Threads, redisOk \in BOOLEAN : ThreadReadShared(i, redisOk)
    \/ \E i \in Threads : ThreadRefillLocal(i)
    \/ \E i \in Threads, dbOk \in BOOLEAN, emb \in EmbedOutcomes, llmOk \in BOOLEAN :
          ThreadCompute(i, dbOk, emb, llmOk)
    \/ \E i \in Threads : ThreadWriteLocal(i)
    \/ \E i \in Threads, redisOk \in BOOLEAN : ThreadWriteShared(i, redisOk)
    \/ \E i \in Threads : ThreadReturn(i)

SpecConcurrent == InitConcurrent /\ [][NextConcurrent]_vars

\* The requests whose cache key is K: tenant and question of the key, with
\* the tenant's configuration as read from the table or as the defaults
RequestsOfKey(K) ==
    { th \in { with_config([ NoRequest EXCEPT !.op = "answer", !.tenant = K.tenant_id,
                                              !.course = K.course_id, !.question = q,
                                              !.top_k = 1 ],
                           cfg, "row") :
                 q \in ThreadQuestions,
                 cfg \in { default_cfg, cfg_of_row(settingsTable[K.tenant_id]) } } :
        th.cache_key = << K >> }

\* The answers a request whose cache key is K computes and caches
AnswersOfKey(K) ==
    { out.result[1] :
        out \in { o \in { thread_outcome(th, dbOk, emb, llmOk) :
                            th \in RequestsOfKey(K), dbOk \in BOOLEAN,
                            emb \in EmbedOutcomes, llmOk \in BOOLEAN } :
                    o.path = "llm_success" } }

\* C23: under every interleaving of answer() calls on one engine, an answer
\* read from the answer cache under key K was computed by a request whose key
\* is K, a configuration read from the tenant cache for tenant T was loaded
\* for T, every entry is whole, and every call ends with a result of its own.
C23_CachesConsistent ==
    /\ \A e \in responseCache \cup redis : e.value \in AnswersOfKey(e.key)
    /\ \A t \in Tenants : \A k \in 1..Len(tenantCache[t]) :
          tenantCache[t][k].cfg = cfg_of_row(settingsTable[t])
    /\ \A i \in Threads :
          /\ threads[i].cfg_from = "cache" =>
                threads[i].cfg = cfg_of_row(settingsTable[threads[i].tenant])
          /\ threads[i].pc \in { "done", "refill_local" } =>
                /\ threads[i].result # << >>
                /\ threads[i].path = "cache_hit" =>
                      threads[i].result[1] \in AnswersOfKey(threads[i].cache_key[1])
          /\ threads[i].pc \in { "done", "write_local", "write_shared" }
                /\ threads[i].path # "cache_hit" =>
                \E dbOk \in BOOLEAN, emb \in EmbedOutcomes, llmOk \in BOOLEAN :
                    threads[i].result =
                        thread_outcome(threads[i], dbOk, emb, llmOk).result

\* Two threads are in answer() at once, one returning an answer the other
\* computed and one holding a configuration the other loaded
C23_Witness ==
    \E i, j \in Threads :
        /\ i # j
        /\ threads[i].pc = "done" /\ threads[i].path = "cache_hit"
        /\ threads[i].cfg_from = "cache"
        /\ threads[j].pc = "write_shared"

\* The non-empty pages of a text, stripped, in their order (page_based_chunker.py:20-30)
PagesOf(text) == StripNonEmpty(Split("page", text))

\* C24: with the factory's page-based chunker (short pages combined, minimum
\* page length 100) every chunk but the last has at least 100 characters, and
\* the chunks hold the pages of the text in their order, none lost.
C24_PagesBufferedToMinimum ==
    ( ChunkDone /\ req.chunking_strategy = "page_based" ) =>
        /\ \A i \in 1..(Len(Result) - 1) : TextLen(Result[i].content) >= 100
        /\ Join([ i \in 1..Len(Result) |-> Result[i].content ], << "\n", "\n" >>)
              = Join(PagesOf(req.source), << "\n", "\n" >>)

\* C25: with the factory's recursive chunker (budget 1000), a text whose
\* pieces between single spaces, the last separator, have at most 1000
\* characters each yields chunks of at most 1000 characters each.
C25_ChunksWithinBudget ==
    ( /\ ChunkDone /\ req.chunking_strategy = "recursive"
      /\ \A k \in 1..Len(Split(<< " " >>, req.source)) :
            TextLen(Split(<< " " >>, req.source)[k]) <= 1000 ) =>
        \A i \in 1..Len(Result) : TextLen(Result[i].content) <= 1000

\* ---------------------------------------------------------------------------
\* PostgresKeywordRetriever._semantic_scores_chroma (postgres_retriever.py:262-318)
\* ---------------------------------------------------------------------------

MaxChromaCalls == 3

\* The places where the call can fail: importing chromadb, making the client,
\* create_collection, add, query, reading the result, delete_collection
ChromaFailurePoints == { "import", "client", "create", "add", "query", "decode", "delete" }

\* uuid.uuid4().hex: a name no earlier collection has
new_collection_name == served + 1

\* Lines 287-318.  chunks, q: the arguments; emb: what the embedding providers
\* do; fails: the places that fail.  raised: _embed_texts raised (line 280 is
\* outside the try); scores: the value returned; kept: the collections the
\* process holds when the call returns.
semantic_scores_chroma(held, chunks, q, emb, fails) ==
    LET name   == new_collection_name
        scores == [ i \in 1..Len(chunks) |->
                      [ chunk_id |-> chunks[i].source_id,
                        score    |-> semantic_score(chunks[i], q, "semantic") ] ]
    IN  IF "import" \in fails
        THEN [ raised |-> FALSE, scores |-> << >>, kept |-> held ]
        ELSE IF embed_texts_raises(emb)
        THEN [ raised |-> TRUE, scores |-> << >>, kept |-> held ]
        ELSE IF "client" \in fails \/ "create" \in fails
        THEN [ raised |-> FALSE, scores |-> << >>, kept |-> held ]
        ELSE IF "add" \in fails \/ "query" \in fails \/ "decode" \in fails
        THEN [ raised |-> FALSE, scores |-> << >>, kept |-> held \cup { name } ]
        ELSE IF "delete" \in fails
        THEN [ raised |-> FALSE, scores |-> scores, kept |-> held \cup { name } ]
        ELSE [ raised |-> FALSE, scores |-> scores, kept |-> held ]

\* retrieve, lines 78-86: the chroma scoring is called for a tenant's chunks
CallSemanticScoresChroma(t, q, emb, fails) ==
    /\ req.pc = "idle"
    /\ served < MaxChromaCalls
    /\ collect_chunks(corpus, t, NoCourse) # << >>
    /\ LET r == semantic_scores_chroma(collections, collect_chunks(corpus, t, NoCourse),
                                       q, emb, fails)
       IN  /\ req' = [ NoRequest EXCEPT
                         !.pc = "done", !.op = "semantic_scores_chroma",
                         !.tenant = t, !.question = q, !.vector_store = "chroma",
                         !.path = IF r.raised THEN "raised" ELSE "scored",
                         !.raised = IF r.raised THEN "embedding_error" ELSE NULL,
                         !.rows = r.scores ]
           /\ collections' = r.kept
    /\ served' = served + 1
    /\ UNCHANGED << now, dbUrlSet, redisOn, settingsTable, corpus, tenantCache,
                    responseCache, redis, ingestStore, prev, client, threads >>

NextChroma ==
    \/ \E t \in Tenants, q \in Questions, emb \in EmbedOutcomes,
          fails \in SUBSET ChromaFailurePoints :
            CallSemanticScoresChroma(t, q, emb, fails)
    \/ Return

SpecChroma == InitRetriever /\ [][NextChroma]_vars

\* C26: when _semantic_scores_chroma has returned, with scores or after a
\* failure of add, query or result decoding, the collection it created for
\* the call is gone: the process holds no collection.
C26_CollectionsDiscarded ==
    req.op = "semantic_scores_chroma" => collections = {}

\* C27: for every strategy of the factory and every text, the chunk at
\* position i of the returned list (counting from 0) has index i.
C27_IndexesConsecutive ==
    ChunkDone => \A i \in 1..Len(Result) : Result[i].index = i - 1

\* The candidate chunks of the retrieval that has returned, each with the
\* combined score _rank_chunks computes for it (lines 405-414)
Candidates ==
    LET chunks   == collect_chunks(corpus, req.tenant, req.course)
        strategy == normalize_retrieval_strategy(req.retrieval_strategy)
    IN  { [ source_id |-> chunks[i].source_id, snippet |-> chunks[i].snippet,
            combined  |-> combined_score(score_text(chunks[i], Tokenize(req.question)),
                                         semantic_score(chunks[i], req.question, strategy),
                                         strategy) ] : i \in 1..Len(chunks) }

\* A candidate is returned when a row of the result has its source and text
IsReturned(c) ==
    \E i \in 1..Len(req.rows) :
        req.rows[i].source_id = c.source_id /\ req.rows[i].snippet = c.snippet

\* C28: in the rows one retrieval returns, no chunk stands ahead of a chunk of
\* strictly greater combined score, and no chunk is returned while a chunk of
\* strictly greater combined score is cut off.
C28_RankingFollowsScore ==
    ( req.pc = "done" /\ req.op = "retrieve" /\ req.raised = NULL ) =>
        /\ \A i, j \in 1..Len(req.rows) :
              i < j => req.rows[i].combined >= req.rows[j].combined
        /\ \A a \in Candidates : \A i \in 1..Len(req.rows) :
              ~IsReturned(a) => a.combined <= req.rows[i].combined

\* What the request in progress computes for its own top_k when it runs the
\* pipeline itself (engine.py:86-199), under each outcome of its environment
OwnResults ==
    LET own == [ req EXCEPT !.requested_top_k = requested_top_k_of(req.top_k) ] IN
    { thread_outcome(own, dbOk, emb, llmOk).result[1] :
        dbOk \in BOOLEAN, emb \in EmbedOutcomes, llmOk \in BOOLEAN }

\* C29: the top_k_used and the number of sources of every result answer
\* returns are those the request's own top_k produces, also when the result
\* comes from the cache.
C29_ResultReflectsOwnTopK ==
    ( AnswerDone /\ Has(Result, "top_k_used") ) =>
        /\ Result.top_k_used = requested_top_k_of(req.top_k)
        /\ \E own \in OwnResults : Len(own.sources) = Len(Result.sources)

\* C30: after ingest has returned chunks = n > 0, the store of the engine's
\* ingestion pipeline holds at least n rows of that tenant and source.
C30_IngestedChunksHeld ==
    ( req.pc = "done" /\ req.op = "ingest" /\ req.path = "ingested" /\ Result.chunks > 0 ) =>
        Cardinality({ i \in 1..Len(ingestStore) :
                        /\ ingestStore[i].tenant_id = req.tenant
                        /\ ingestStore[i].source = req.source }) >= Result.chunks

====
